---- MODULE Spec2Model ----
(***************************************************************************)
(* Verification model of ContainrLab's runner supervisor (runnerd),        *)
(* src/runner/supervisor/server.py.                                        *)
(*                                                                         *)
(* Strings are tuples of one-character strings, so that prefix tests,      *)
(* splitting and normalisation are computed character by character, the    *)
(* way the Python code computes them.                                      *)
(***************************************************************************)
EXTENDS Integers, Sequences, FiniteSets, TLC

VARIABLES
    rawPath,      \* path sanitizer: the input path (None when the field is absent)
    sanResult,    \* path sanitizer: Pending, or the result of the call
    containers,   \* outer engine: sandbox container name -> container
    volumes,      \* outer engine: volume name -> volume
    startPc,      \* start_runner in progress: "idle", "waiting" or "seeding"
    startReq,     \* the StartRequest being served
    waited,       \* seconds spent so far in _wait_for_dockerd
    resp,         \* the last response the supervisor returned
    calls,        \* the engine calls made for the request served last
    term,         \* the terminal websocket session being served, if any
    trim,         \* _trim_logs: the call made last, with its result
    limiter,      \* backend: the agent service's RateLimiter
    backend,      \* backend: session storage, the runner it calls, the cleanup loop
    judge,        \* judge: the container exercise of a lab evaluation
    proxy         \* backend: the terminal proxy between browser and runner

pathVars == <<rawPath, sanResult>>
engineVars == <<containers, volumes>>
startVars == <<startPc, startReq, waited>>
reqVars == <<resp, calls>>
termVars == <<term>>
appVars == <<trim, limiter, backend, judge, proxy>>
supervisorVars == <<pathVars, engineVars, startVars, reqVars, term>>
vars ==
    <<rawPath, sanResult, containers, volumes, startPc, startReq, waited, resp, calls, term,
      trim, limiter, backend, judge, proxy>>

(***************************************************************************)
(* Strings                                                                 *)
(***************************************************************************)
\* an optional request field: Python's None, or a string
None == [present |-> FALSE, text |-> <<>>]
Some(text) == [present |-> TRUE, text |-> text]

\* a call that has not returned yet
Pending == [pending |-> TRUE]
Returned(r) == r # Pending

Slash == "/"
Dot == "."

\* str.startswith(prefix)
StartsWith(s, prefix) ==
    /\ Len(s) >= Len(prefix)
    /\ SubSeq(s, 1, Len(prefix)) = prefix

\* str.split("/"): the components between slashes, empty ones kept
RECURSIVE SplitFrom(_, _, _, _)
SplitFrom(s, i, cur, acc) ==
    IF i > Len(s) THEN Append(acc, cur)
    ELSE IF s[i] = Slash THEN SplitFrom(s, i + 1, <<>>, Append(acc, cur))
    ELSE SplitFrom(s, i + 1, Append(cur, s[i]), acc)

SplitSlash(s) == SplitFrom(s, 1, <<>>, <<>>)

\* "/".join(comps)
RECURSIVE JoinFrom(_, _)
JoinFrom(comps, i) ==
    IF i > Len(comps) THEN <<>>
    ELSE IF i = Len(comps) THEN comps[i]
    ELSE comps[i] \o <<Slash>> \o JoinFrom(comps, i + 1)

JoinSlash(comps) == JoinFrom(comps, 1)

(***************************************************************************)
(* Configuration constants of the supervisor                               *)
(***************************************************************************)
WORKSPACE_ROOT == <<"/", "w", "o", "r", "k", "s", "p", "a", "c", "e">>

\* names used in requests
Sub == <<"s", "u", "b">>
FileTxt == <<"f", "i", "l", "e", ".", "t", "x", "t">>
Etc == <<"e", "t", "c">>
Passwd == <<"p", "a", "s", "s", "w", "d">>

(***************************************************************************)
(* os.path.normpath and os.path.join (posixpath), as called by             *)
(* _sanitize_workspace_path                                                *)
(***************************************************************************)
DotDot == <<".", ".">>

\* posixpath.normpath: one or two leading slashes are kept, three or more
\* collapse to one
InitialSlashes(path) ==
    IF ~StartsWith(path, <<Slash>>) THEN 0
    ELSE IF StartsWith(path, <<Slash, Slash>>) /\ ~StartsWith(path, <<Slash, Slash, Slash>>)
         THEN 2
    ELSE 1

\* the loop of posixpath.normpath over the split components
RECURSIVE NormComps(_, _, _, _)
NormComps(comps, i, new, initial) ==
    IF i > Len(comps) THEN new
    ELSE LET comp == comps[i] IN
         IF comp = <<>> \/ comp = <<Dot>> THEN NormComps(comps, i + 1, new, initial)
         ELSE IF \/ comp # DotDot
                 \/ (initial = 0 /\ new = <<>>)
                 \/ (new # <<>> /\ new[Len(new)] = DotDot)
              THEN NormComps(comps, i + 1, Append(new, comp), initial)
         ELSE IF new # <<>>
              THEN NormComps(comps, i + 1, SubSeq(new, 1, Len(new) - 1), initial)
         ELSE NormComps(comps, i + 1, new, initial)

normpath(path) ==
    IF path = <<>> THEN <<Dot>>
    ELSE LET initial == InitialSlashes(path)
             joined == JoinSlash(NormComps(SplitSlash(path), 1, <<>>, initial))
             full == [k \in 1..initial |-> Slash] \o joined
         IN IF full = <<>> THEN <<Dot>> ELSE full

\* posixpath.join(a, b) for a non-empty a
pathjoin(a, b) ==
    IF StartsWith(b, <<Slash>>) THEN b
    ELSE IF a[Len(a)] = Slash THEN a \o b
    ELSE a \o <<Slash>> \o b

(***************************************************************************)
(* HTTP results                                                            *)
(***************************************************************************)
Ok(v) == [ok |-> TRUE, value |-> v]
HttpError(code, why) == [ok |-> FALSE, status |-> code, detail |-> why]

(***************************************************************************)
(* _sanitize_workspace_path                                                *)
(***************************************************************************)
_sanitize_workspace_path(path) ==
    LET raw == IF path = <<>> THEN WORKSPACE_ROOT ELSE path
        normalized == IF StartsWith(raw, <<Slash>>)
                      THEN normpath(raw)
                      ELSE normpath(pathjoin(WORKSPACE_ROOT, raw))
    IN IF ~StartsWith(normalized, WORKSPACE_ROOT)
       THEN HttpError(400, "Path escapes workspace root")
       ELSE IF normalized = <<Slash>> THEN Ok(WORKSPACE_ROOT)
       ELSE Ok(normalized)

\* list_path: target = _sanitize_workspace_path(payload.path or WORKSPACE_ROOT)
ListTarget(path) ==
    _sanitize_workspace_path(IF ~path.present \/ path.text = <<>>
                             THEN WORKSPACE_ROOT ELSE path.text)

(***************************************************************************)
(* Path inputs: an optional leading slash and up to MaxSegs segments       *)
(***************************************************************************)
MaxSegs == 4

Segments ==
    { <<>>, <<Dot>>, DotDot,
      <<"w", "o", "r", "k", "s", "p", "a", "c", "e">>,
      <<"w", "o", "r", "k", "s", "p", "a", "c", "e", "2">>,
      <<"s", "u", "b">>,
      <<"f", "i", "l", "e", ".", "t", "x", "t">>,
      <<"e", "t", "c">>,
      <<"p", "a", "s", "s", "w", "d">> }

SegLists == UNION { [1..n -> Segments] : n \in 0..MaxSegs }

PathInputs ==
    { (IF abs THEN <<Slash>> ELSE <<>>) \o JoinSlash(segs) :
        abs \in BOOLEAN, segs \in SegLists }

(***************************************************************************)
(* Names.  Session ids, engine names and file paths are kept in the state  *)
(* as strings; Chars gives the characters of each, for the code that       *)
(* slices, joins or normalizes them, and Intern is its inverse.            *)
(***************************************************************************)
NameLen == 32
Take(s, n) == SubSeq(s, 1, IF Len(s) < n THEN Len(s) ELSE n)

RlSess == <<"r", "l", "_", "s", "e", "s", "s", "_">>
RlWs == <<"r", "l", "_", "w", "s", "_">>
Dockerfile == <<"D", "o", "c", "k", "e", "r", "f", "i", "l", "e">>
DotEnv == <<".", "e", "n", "v">>
ManyA == [i \in 1..NameLen |-> "a"]
RlApp == <<"r", "l", "_", "a", "p", "p", "_">>
SessionTag == <<"c", "o", "n", "t", "a", "i", "n", "r", "l", "a", "b", "/",
                "s", "e", "s", "s", "i", "o", "n", "-">>
Latest == <<":", "l", "a", "t", "e", "s", "t">>
ShortLen == 12

Chars(s) ==
    CASE s = "s1" -> <<"s", "1">>
      [] s = "aaaaaaaaaaaaaaaaaaaaaaaaaaaaaaaax" -> ManyA \o <<"x">>
      [] s = "aaaaaaaaaaaaaaaaaaaaaaaaaaaaaaaay" -> ManyA \o <<"y">>
      [] s = "rl_sess_s1" -> RlSess \o <<"s", "1">>
      [] s = "rl_sess_aaaaaaaaaaaaaaaaaaaaaaaaaaaaaaaa" -> RlSess \o ManyA
      [] s = "rl_ws_s1" -> RlWs \o <<"s", "1">>
      [] s = "rl_ws_aaaaaaaaaaaaaaaaaaaaaaaaaaaaaaaa" -> RlWs \o ManyA
      [] s = "/" -> <<Slash>>
      [] s = "/workspace" -> WORKSPACE_ROOT
      [] s = "/workspace/Dockerfile" -> JoinSlash(<<WORKSPACE_ROOT, Dockerfile>>)
      [] s = "/workspace/.env" -> JoinSlash(<<WORKSPACE_ROOT, DotEnv>>)
      [] s = "/workspace/sub" -> JoinSlash(<<WORKSPACE_ROOT, Sub>>)
      [] s = "/workspace/sub/file.txt" -> JoinSlash(<<WORKSPACE_ROOT, Sub, FileTxt>>)
      [] s = "/workspace2" -> WORKSPACE_ROOT \o <<"2">>
      [] s = "rl_app_s1" -> RlApp \o <<"s", "1">>
      [] s = "rl_app_aaaaaaaaaaaa" -> RlApp \o Take(ManyA, ShortLen)
      [] s = "containrlab/session-s1:latest" -> SessionTag \o <<"s", "1">> \o Latest
      [] s = "containrlab/session-aaaaaaaaaaaa:latest" ->
             SessionTag \o Take(ManyA, ShortLen) \o Latest

KnownNames ==
    { "s1", "aaaaaaaaaaaaaaaaaaaaaaaaaaaaaaaax", "aaaaaaaaaaaaaaaaaaaaaaaaaaaaaaaay",
      "rl_sess_s1", "rl_sess_aaaaaaaaaaaaaaaaaaaaaaaaaaaaaaaa",
      "rl_ws_s1", "rl_ws_aaaaaaaaaaaaaaaaaaaaaaaaaaaaaaaa",
      "/", "/workspace", "/workspace/Dockerfile", "/workspace/.env",
      "/workspace/sub", "/workspace/sub/file.txt", "/workspace2",
      "rl_app_s1", "rl_app_aaaaaaaaaaaa",
      "containrlab/session-s1:latest", "containrlab/session-aaaaaaaaaaaa:latest" }

\* the characters of every known name, computed once
CharsOf == [s \in KnownNames |-> Chars(s)]

Intern(chars) == CHOOSE s \in KnownNames : CharsOf[s] = chars

_container_name(session_id) == Intern(RlSess \o Take(CharsOf[session_id], NameLen))
_volume_name(session_id) == Intern(RlWs \o Take(CharsOf[session_id], NameLen))
_default_image_tag(session_id) ==
    Intern(SessionTag \o Take(CharsOf[session_id], ShortLen) \o Latest)
_default_run_container_name(session_id) ==
    Intern(RlApp \o Take(CharsOf[session_id], ShortLen))

\* the session ids requests are made with: a short one, and two long ones
\* that agree on their first NameLen characters
S1 == "s1"
LongA == "aaaaaaaaaaaaaaaaaaaaaaaaaaaaaaaax"
LongB == "aaaaaaaaaaaaaaaaaaaaaaaaaaaaaaaay"
SessionIds == {S1, LongA, LongB}

ContainerNames == {_container_name(s) : s \in SessionIds}
VolumeNames == {_volume_name(s) : s \in SessionIds}

(***************************************************************************)
(* Files of a sandbox: the workspace volume mounted at /workspace, and the *)
(* container's own root filesystem outside it                              *)
(***************************************************************************)
NoEntry == [kind |-> "absent"]
DirEntry == [kind |-> "dir"]
FileEntry(data) == [kind |-> "file", data |-> data]

InsideNodes ==
    { "/workspace/Dockerfile", "/workspace/.env", "/workspace/sub",
      "/workspace/sub/file.txt" }
OutsideNodes == { "/workspace2" }
FsNodes == InsideNodes \cup OutsideNodes

EmptyContent == [n \in InsideNodes |-> NoEntry]
EmptyLocal == [n \in OutsideNodes |-> NoEntry]

(***************************************************************************)
(* The outer engine's containers and volumes                               *)
(***************************************************************************)
\* the nested engine of a sandbox: its images and application containers
AppNames == { "rl_app_s1", "rl_app_aaaaaaaaaaaa", "web" }
ImageTags == { "containrlab/session-s1:latest",
               "containrlab/session-aaaaaaaaaaaa:latest", "img:1" }
NoApps == [a \in AppNames |-> "absent"]

AbsentContainer ==
    [status |-> "absent", ready |-> FALSE, local |-> EmptyLocal,
     images |-> {}, apps |-> NoApps]
\* a container right after containers.run(detach=True): started, the nested
\* engine's socket not there yet
NewContainer ==
    [status |-> "running", ready |-> FALSE, local |-> EmptyLocal,
     images |-> {}, apps |-> NoApps]

AbsentVolume == [exists |-> FALSE, content |-> EmptyContent]
NewVolume == [exists |-> TRUE, content |-> EmptyContent]

NoError == [ok |-> TRUE]

\* _ensure_volume: get the volume, create it on NotFound
_ensure_volume(vs, name) ==
    IF vs[name].exists
    THEN [volumes |-> vs, calls |-> <<"volumes.get">>]
    ELSE [volumes |-> [vs EXCEPT ![name] = NewVolume],
          calls |-> <<"volumes.get", "volumes.create">>]

\* (variant: the lookup is made, the removal is forgotten)
RemoveContainerForgotten(cs, name) ==
    [error |-> NoError, containers |-> cs, calls |-> <<"containers.get">>]

\* _remove_container_if_exists: NotFound is swallowed, the container is
\* force-removed otherwise
_remove_container_if_exists(cs, name) ==
    IF cs[name].status = "absent"
    THEN [error |-> NoError, containers |-> cs, calls |-> <<"containers.get">>]
    ELSE [error |-> NoError,
          containers |-> [cs EXCEPT ![name] = AbsentContainer],
          calls |-> <<"containers.get", "container.remove">>]

\* client.containers.run(RUNNER_IMAGE, name=..., detach=True, ...): the engine
\* refuses a name that is in use (409), and may fail for its own reasons
ContainersRun(cs, name, engineOk) ==
    IF cs[name].status # "absent"
    THEN [error |-> HttpError(502, "Failed to start runner container: name in use"),
          containers |-> cs]
    ELSE IF ~engineOk
    THEN [error |-> HttpError(502, "Failed to start runner container: engine error"),
          containers |-> cs]
    ELSE [error |-> NoError, containers |-> [cs EXCEPT ![name] = NewContainer]]

(***************************************************************************)
(* Lab starter directories under LABS_ROOT                                 *)
(***************************************************************************)
LabSlugs == {"lab1", "nolab"}
StarterIsDir(lab) == lab = "lab1"

\* the entries of LABS_ROOT/<lab>/starter, at the place they get in /workspace
StarterContent(lab) ==
    [n \in InsideNodes |->
        IF lab = "lab1" /\ n = "/workspace/Dockerfile"
        THEN FileEntry(<<70, 82>>)
        ELSE NoEntry]

\* the name of the entry of /workspace that a node is, or lies beneath
TopName(n) == SplitSlash(CharsOf[n])[3]
Hidden(name) == name # <<>> /\ name[1] = Dot

\* sh -c "rm -rf /workspace/*": the glob does not match hidden entries
WipeWorkspace(content) ==
    [n \in InsideNodes |-> IF Hidden(TopName(n)) THEN content[n] ELSE NoEntry]

\* put_archive("/workspace", tar of the starter directory): every entry of
\* the archive is written, everything else stays
ExtractStarter(content, lab) ==
    [n \in InsideNodes |->
        IF StarterContent(lab)[n] # NoEntry THEN StarterContent(lab)[n] ELSE content[n]]

(***************************************************************************)
(* Requests and responses                                                  *)
(***************************************************************************)
\* where each session stands in the history of start and stop requests (not
\* program state): "up" after a start that succeeded, "gone" after a stop that
\* then succeeded with the volume removed, "none" otherwise; "off" throughout
\* where the history is not recorded
NoHistory == [s \in SessionIds |-> "none"]
Untracked == [s \in SessionIds |-> "off"]

History(op, sid, result, ghost) ==
    IF resp.hist = Untracked THEN Untracked
    ELSE IF op = "start" THEN [resp.hist EXCEPT ![sid] = "none"]
    ELSE IF op = "stop"
    THEN [resp.hist EXCEPT ![sid] =
             IF result.ok /\ ~ghost.preserve_workspace /\ @ = "up" THEN "gone"
             ELSE "none"]
    ELSE resp.hist

Response(op, sid, result, ghost) ==
    [op |-> op, session |-> sid, result |-> result, pre |-> ghost,
     hist |-> History(op, sid, result, ghost)]

NoGhost == [none |-> TRUE]
NoRequest == [session |-> "", lab_slug |-> ""]

\* what existed for the session when the request came in (not program state)
PreState(cs, vs, sid) ==
    [hadContainer |-> cs[_container_name(sid)].status # "absent",
     hadVolume |-> vs[_volume_name(sid)].exists]

\* No websocket has been accepted yet.
NoTerminal ==
    [pc |-> "none", session |-> "", status |-> "none", ws |-> "none", code |-> 0,
     reason |-> "", sock |-> "none", stop_event |-> FALSE, outPc |-> "none",
     inPc |-> "none", shell |-> "none", client |-> "none", inbox |-> <<>>,
     execs |-> 0, idle |-> 0, sent |-> "none", wrote |-> "", resize |-> "none"]

EngineStart(history) ==
    /\ containers = [n \in ContainerNames |-> AbsentContainer]
    /\ volumes = [n \in VolumeNames |-> AbsentVolume]
    /\ startPc = "idle"
    /\ startReq = NoRequest
    /\ waited = 0
    /\ resp = [op |-> "none", session |-> "", result |-> Ok(NoGhost), pre |-> NoGhost,
               hist |-> history]
    /\ calls = <<>>
    /\ term = NoTerminal

EngineInit == EngineStart(Untracked)

\* a component that the specification at hand does not exercise
Unused == [used |-> FALSE]

AppIdle ==
    /\ trim = Unused
    /\ limiter = Unused
    /\ backend = Unused
    /\ judge = Unused
    /\ proxy = Unused

PathIdle ==
    /\ rawPath = None
    /\ sanResult = Pending

(***************************************************************************)
(* Session Manager: start_runner                                           *)
(***************************************************************************)
STARTUP_TIMEOUT == 3

\* (variant: the starter directory is looked at after the volume and the
\* old container have been dealt with)
StartCreateChecksStarterLast(cs, vs, sid, lab, engineOk) ==
    LET ensured == _ensure_volume(vs, _volume_name(sid))
        removed == _remove_container_if_exists(cs, _container_name(sid))
        run == ContainersRun(removed.containers, _container_name(sid), engineOk)
    IN IF ~removed.error.ok
       THEN [error |-> removed.error, containers |-> removed.containers,
             volumes |-> ensured.volumes,
             calls |-> ensured.calls \o removed.calls]
       ELSE IF ~StarterIsDir(lab)
       THEN [error |-> HttpError(404, "Starter assets not found"),
             containers |-> removed.containers, volumes |-> ensured.volumes,
             calls |-> ensured.calls \o removed.calls]
       ELSE [error |-> run.error, containers |-> run.containers,
             volumes |-> ensured.volumes,
             calls |-> ensured.calls \o removed.calls \o <<"containers.run">>]

\* start_runner up to and including containers.run
StartCreate(cs, vs, sid, lab, engineOk) ==
    IF ~StarterIsDir(lab)
    THEN [error |-> HttpError(404, "Starter assets not found"),
          containers |-> cs, volumes |-> vs, calls |-> <<>>]
    ELSE LET ensured == _ensure_volume(vs, _volume_name(sid))
             removed == _remove_container_if_exists(cs, _container_name(sid))
             run == ContainersRun(removed.containers, _container_name(sid), engineOk)
         IN IF ~removed.error.ok
            THEN [error |-> removed.error, containers |-> removed.containers,
                  volumes |-> ensured.volumes,
                  calls |-> ensured.calls \o removed.calls]
            ELSE [error |-> run.error, containers |-> run.containers,
                  volumes |-> ensured.volumes,
                  calls |-> ensured.calls \o removed.calls \o <<"containers.run">>]

StartBegin(sid, lab) ==
    /\ startPc = "idle"
    /\ \E engineOk \in BOOLEAN :
         LET r == StartCreate(containers, volumes, sid, lab, engineOk)
             ghost == [hadContainer |-> PreState(containers, volumes, sid).hadContainer,
                       hadVolume |-> PreState(containers, volumes, sid).hadVolume,
                       lab_slug |-> lab]
         IN /\ containers' = r.containers
            /\ volumes' = r.volumes
            /\ calls' = r.calls
            /\ IF r.error.ok
               THEN /\ startPc' = "waiting"
                    /\ startReq' = [session |-> sid, lab_slug |-> lab]
                    /\ waited' = 0
                    /\ resp' = Response("start", sid, Pending, ghost)
               ELSE /\ resp' = Response("start", sid, r.error, ghost)
                    /\ UNCHANGED startVars
    /\ UNCHANGED <<pathVars, termVars, appVars>>

\* the loop of _wait_for_dockerd without its deadline (a variant used to
\* test the properties of the wait)
WaitNeverTimesOut(c, elapsed) ==
    IF c.status # "running"
    THEN [next |-> "fail", remove |-> TRUE,
          error |-> HttpError(502, "Runner container exited during startup"),
          calls |-> <<"container.reload", "container.logs", "container.remove">>]
    ELSE IF c.ready
    THEN [next |-> "ready", remove |-> FALSE, error |-> NoError,
          calls |-> <<"container.reload", "exec:test-S">>]
    ELSE [next |-> "sleep", remove |-> FALSE, error |-> NoError,
          calls |-> <<"container.reload", "exec:test-S">>]

\* one round of the loop of _wait_for_dockerd, or its exit at the deadline
WaitRound(c, elapsed) ==
    IF elapsed >= STARTUP_TIMEOUT
    THEN [next |-> "fail", remove |-> TRUE,
          error |-> HttpError(504, "Runner daemon failed to become ready in time"),
          calls |-> <<"container.remove">>]
    ELSE IF c.status # "running"
    THEN [next |-> "fail", remove |-> TRUE,
          error |-> HttpError(502, "Runner container exited during startup"),
          calls |-> <<"container.reload", "container.logs", "container.remove">>]
    ELSE IF c.ready
    THEN [next |-> "ready", remove |-> FALSE, error |-> NoError,
          calls |-> <<"container.reload", "exec:test-S">>]
    ELSE [next |-> "sleep", remove |-> FALSE, error |-> NoError,
          calls |-> <<"container.reload", "exec:test-S">>]

WaitForDockerd ==
    /\ startPc = "waiting"
    /\ LET name == _container_name(startReq.session)
           r == WaitRound(containers[name], waited)
       IN /\ calls' = calls \o r.calls
          /\ containers' = IF r.remove
                           THEN [containers EXCEPT ![name] = AbsentContainer]
                           ELSE containers
          /\ CASE r.next = "fail" ->
                    /\ startPc' = "idle"
                    /\ resp' = [resp EXCEPT !.result = r.error]
                    /\ UNCHANGED waited
               [] r.next = "ready" ->
                    /\ startPc' = "seeding"
                    /\ UNCHANGED <<resp, waited>>
               [] r.next = "sleep" ->
                    \* time.sleep(1), plus the time the probe itself took
                    /\ \E d \in 1..2 : waited' = waited + d
                    /\ UNCHANGED <<startPc, resp>>
    /\ UNCHANGED <<volumes, startReq, pathVars, termVars, appVars>>

\* _seed_workspace, given how its two engine calls end
SeedWorkspace(c, content, lab, rmOk, putOk) ==
    IF c.status # "running"
    THEN \* exec_run on a container that is not running: the engine's 409 is
         \* not caught and becomes the framework's 500
         [error |-> HttpError(500, "Internal Server Error"), content |-> content,
          calls |-> <<"exec:rm-workspace">>]
    ELSE IF ~rmOk
    THEN [error |-> HttpError(500, "Unable to clean workspace before seeding"),
          content |-> content, calls |-> <<"exec:rm-workspace">>]
    ELSE IF ~putOk
    THEN [error |-> HttpError(500, "Failed to seed workspace"),
          content |-> WipeWorkspace(content),
          calls |-> <<"exec:rm-workspace", "put_archive">>]
    ELSE [error |-> NoError,
          content |-> ExtractStarter(WipeWorkspace(content), lab),
          calls |-> <<"exec:rm-workspace", "put_archive">>]

StartSeed ==
    /\ startPc = "seeding"
    /\ \E rmOk \in BOOLEAN, putOk \in BOOLEAN :
         LET name == _container_name(startReq.session)
             vname == _volume_name(startReq.session)
             r == SeedWorkspace(containers[name], volumes[vname].content,
                                startReq.lab_slug, rmOk, putOk)
         IN /\ volumes' = [volumes EXCEPT ![vname].content = r.content]
            /\ calls' = calls \o r.calls
            /\ resp' = [resp EXCEPT
                           !.result =
                               IF r.error.ok
                               THEN Ok([session_id |-> startReq.session, container |-> name])
                               ELSE r.error,
                           !.hist[startReq.session] =
                               IF @ = "off" THEN "off"
                               ELSE IF r.error.ok THEN "up" ELSE "none"]
    /\ startPc' = "idle"
    /\ UNCHANGED <<containers, startReq, waited, pathVars, termVars, appVars>>

(***************************************************************************)
(* Session Manager: stop_runner                                            *)
(***************************************************************************)
\* (variant: NotFound from volumes.get is not swallowed)
RemoveVolumeNotFoundRaised(vs, name) ==
    IF ~vs[name].exists
    THEN [error |-> HttpError(500, "Internal Server Error"), volumes |-> vs,
          calls |-> <<"volumes.get">>]
    ELSE [error |-> NoError, volumes |-> [vs EXCEPT ![name] = AbsentVolume],
          calls |-> <<"volumes.get", "volume.remove">>]

\* stop_runner's volume removal: get and force-remove the volume, NotFound
\* swallowed
RemoveVolume(vs, name) ==
    IF ~vs[name].exists
    THEN [error |-> NoError, volumes |-> vs, calls |-> <<"volumes.get">>]
    ELSE [error |-> NoError, volumes |-> [vs EXCEPT ![name] = AbsentVolume],
          calls |-> <<"volumes.get", "volume.remove">>]

stop_runner(cs, vs, sid, preserve_workspace) ==
    LET removed == _remove_container_if_exists(cs, _container_name(sid))
        vol == RemoveVolume(vs, _volume_name(sid))
    IN IF ~removed.error.ok
       THEN [result |-> removed.error, containers |-> removed.containers,
             volumes |-> vs, calls |-> removed.calls]
       ELSE IF preserve_workspace
       THEN [result |-> Ok([ok |-> TRUE]), containers |-> removed.containers,
             volumes |-> vs, calls |-> removed.calls]
       ELSE IF ~vol.error.ok
       THEN [result |-> vol.error, containers |-> removed.containers,
             volumes |-> vol.volumes, calls |-> removed.calls \o vol.calls]
       ELSE [result |-> Ok([ok |-> TRUE]), containers |-> removed.containers,
             volumes |-> vol.volumes, calls |-> removed.calls \o vol.calls]

StopRunner(sid, preserve_workspace) ==
    /\ startPc = "idle"
    /\ LET r == stop_runner(containers, volumes, sid, preserve_workspace)
       IN /\ containers' = r.containers
          /\ volumes' = r.volumes
          /\ calls' = r.calls
          /\ resp' = Response("stop", sid, r.result,
                              [hadContainer |-> PreState(containers, volumes, sid).hadContainer,
                               hadVolume |-> PreState(containers, volumes, sid).hadVolume,
                               preserve_workspace |-> preserve_workspace])
    /\ UNCHANGED <<startVars, pathVars, termVars, appVars>>

(***************************************************************************)
(* base64, as base64.b64encode and base64.b64decode (binascii, not strict) *)
(* compute them.  A text is a sequence of symbols: 0..63 stand for the     *)
(* alphabet's characters by value, B64Pad for "=", B64Junk for any other   *)
(* ASCII character.  Bytes are numbers 0..255.                             *)
(***************************************************************************)
B64Pad == 64
B64Junk == 65

RECURSIVE b64encode(_)
b64encode(bytes) ==
    IF Len(bytes) = 0 THEN <<>>
    ELSE IF Len(bytes) = 1
    THEN << bytes[1] \div 4, (bytes[1] % 4) * 16, B64Pad, B64Pad >>
    ELSE IF Len(bytes) = 2
    THEN << bytes[1] \div 4,
            (bytes[1] % 4) * 16 + bytes[2] \div 16,
            (bytes[2] % 16) * 4,
            B64Pad >>
    ELSE << bytes[1] \div 4,
            (bytes[1] % 4) * 16 + bytes[2] \div 16,
            (bytes[2] % 16) * 4 + bytes[3] \div 64,
            bytes[3] % 64 >>
         \o b64encode(SubSeq(bytes, 4, Len(bytes)))

\* the loop of binascii.a2b_base64: quad is the position in the current
\* group of four, left the bits carried over, pads the padding seen in a row
RECURSIVE A2bLoop(_, _, _, _, _, _)
A2bLoop(text, i, quad, left, pads, out) ==
    IF i > Len(text)
    THEN IF quad = 0 THEN Ok(out) ELSE HttpError(400, "Invalid base64 payload")
    ELSE LET ch == text[i] IN
         IF ch = B64Pad
         THEN IF quad >= 2 /\ quad + pads + 1 >= 4
              THEN Ok(out)
              ELSE A2bLoop(text, i + 1, quad, left,
                           IF quad >= 2 THEN pads + 1 ELSE pads, out)
         ELSE IF ch >= 64
         THEN A2bLoop(text, i + 1, quad, left, pads, out)
         ELSE CASE quad = 0 -> A2bLoop(text, i + 1, 1, ch, 0, out)
                [] quad = 1 -> A2bLoop(text, i + 1, 2, ch % 16, 0,
                                       Append(out, left * 4 + ch \div 16))
                [] quad = 2 -> A2bLoop(text, i + 1, 3, ch % 4, 0,
                                       Append(out, left * 16 + ch \div 4))
                [] quad = 3 -> A2bLoop(text, i + 1, 0, 0, 0,
                                       Append(out, left * 64 + ch))

\* base64.b64decode(content), binascii.Error turned into the handlers' 400
b64decode(text) == A2bLoop(text, 1, 0, 0, 0, <<>>)

(***************************************************************************)
(* os.path.dirname and os.path.basename                                    *)
(***************************************************************************)
RECURSIVE RFindSlash(_, _)
RFindSlash(p, i) ==
    IF i = 0 THEN 0 ELSE IF p[i] = Slash THEN i ELSE RFindSlash(p, i - 1)

RECURSIVE RStripSlash(_)
RStripSlash(p) ==
    IF p # <<>> /\ p[Len(p)] = Slash THEN RStripSlash(SubSeq(p, 1, Len(p) - 1)) ELSE p

dirname(p) ==
    LET head == SubSeq(p, 1, RFindSlash(p, Len(p)))
    IN IF head # <<>> /\ RStripSlash(head) # <<>> THEN RStripSlash(head) ELSE head

basename(p) == SubSeq(p, RFindSlash(p, Len(p)) + 1, Len(p))

(***************************************************************************)
(* The sandbox's filesystem and the commands run in it.  The model tracks  *)
(* the entries at the paths of FsNodes; / and /workspace are directories   *)
(* throughout; entries at other paths are not tracked.                     *)
(***************************************************************************)
IsKnown(chars) == \E s \in KnownNames : CharsOf[s] = chars
AlwaysDirs == {"/", "/workspace"}

KindAt(fs, p) ==
    IF p \in AlwaysDirs THEN "dir"
    ELSE IF p \in FsNodes THEN fs[p].kind
    ELSE "absent"

\* a is d, or a directory above d
IsAncestorOrSelf(a, d) ==
    \/ a = d
    \/ a = "/"
    \/ StartsWith(CharsOf[d], CharsOf[a] \o <<Slash>>)

Parent(n) == Intern(dirname(CharsOf[n]))

\* mkdir -p d
MkdirP(fs, d) ==
    LET chain == { n \in FsNodes : IsAncestorOrSelf(n, d) }
    IN IF \E n \in chain : fs[n].kind = "file"
       THEN [ok |-> FALSE, fs |-> fs]
       ELSE [ok |-> TRUE,
             fs |-> [n \in FsNodes |-> IF n \in chain THEN DirEntry ELSE fs[n]]]

\* rm -rf p
RmRf(fs, p) ==
    [n \in FsNodes |-> IF IsAncestorOrSelf(p, n) THEN NoEntry ELSE fs[n]]

\* the archive _write_bytes builds: one regular file, its size and bytes
TarOfFile(name, raw_bytes) ==
    [name |-> name, size |-> Len(raw_bytes), data |-> raw_bytes]

\* (variant: an existing file is appended to, not replaced)
PutArchiveAppends(fs, directory, tar) ==
    LET dest == pathjoin(CharsOf[directory], tar.name)
        data == SubSeq(tar.data, 1, tar.size)
    IN IF KindAt(fs, directory) # "dir" THEN [ok |-> FALSE, fs |-> fs]
       ELSE IF ~IsKnown(dest) THEN [ok |-> TRUE, fs |-> fs]
       ELSE IF KindAt(fs, Intern(dest)) = "dir" THEN [ok |-> FALSE, fs |-> fs]
       ELSE [ok |-> TRUE,
             fs |-> [fs EXCEPT ![Intern(dest)] =
                        FileEntry((IF @.kind = "file" THEN @.data ELSE <<>>) \o data)]]

\* put_archive(directory, tar): the member is extracted into the directory;
\* the engine refuses to put a file where a directory is
PutArchive(fs, directory, tar) ==
    LET dest == pathjoin(CharsOf[directory], tar.name)
        data == SubSeq(tar.data, 1, tar.size)
    IN IF KindAt(fs, directory) # "dir" THEN [ok |-> FALSE, fs |-> fs]
       ELSE IF ~IsKnown(dest) THEN [ok |-> TRUE, fs |-> fs]
       ELSE IF KindAt(fs, Intern(dest)) = "dir" THEN [ok |-> FALSE, fs |-> fs]
       ELSE [ok |-> TRUE, fs |-> [fs EXCEPT ![Intern(dest)] = FileEntry(data)]]

\* get_archive(target): the tar of the entry at target, its first member
GetArchive(fs, target) ==
    IF KindAt(fs, target) = "absent" THEN [found |-> FALSE]
    ELSE IF KindAt(fs, target) = "dir"
    THEN [found |-> TRUE, isfile |-> FALSE, name |-> basename(CharsOf[target])]
    ELSE [found |-> TRUE, isfile |-> TRUE, name |-> basename(CharsOf[target]),
          size |-> Len(fs[target].data), data |-> fs[target].data]

\* the entry that src's entry n becomes when src is moved to dst
Rebased(n, src, dst) ==
    CharsOf[dst] \o SubSeq(CharsOf[n], Len(CharsOf[src]) + 1, Len(CharsOf[n]))

\* the tree at src moved to the free (or plain-file) place dst
MoveTree(fs, src, dst) ==
    [n \in FsNodes |->
        IF \E m \in FsNodes : IsAncestorOrSelf(src, m) /\ Rebased(m, src, dst) = CharsOf[n]
        THEN fs[CHOOSE m \in FsNodes : IsAncestorOrSelf(src, m)
                                       /\ Rebased(m, src, dst) = CharsOf[n]]
        ELSE IF IsAncestorOrSelf(src, n) \/ IsAncestorOrSelf(dst, n) THEN NoEntry
        ELSE fs[n]]

\* mv src dst, for an existing src
Move(fs, src, dst) ==
    LET into == pathjoin(CharsOf[dst], basename(CharsOf[src]))
    IN IF src \in AlwaysDirs \/ IsAncestorOrSelf(src, dst)
       THEN [ok |-> FALSE, fs |-> fs]
       ELSE IF KindAt(fs, dst) = "dir"
       THEN \* moved into the directory dst
            IF into = CharsOf[src] THEN [ok |-> FALSE, fs |-> fs]
            ELSE IF ~IsKnown(into) THEN [ok |-> TRUE, fs |-> RmRf(fs, src)]
            ELSE IF KindAt(fs, Intern(into)) = "dir" THEN [ok |-> FALSE, fs |-> fs]
            ELSE [ok |-> TRUE, fs |-> MoveTree(fs, src, Intern(into))]
       ELSE IF KindAt(fs, dst) = "file" /\ KindAt(fs, src) = "dir"
       THEN [ok |-> FALSE, fs |-> fs]
       ELSE [ok |-> TRUE, fs |-> MoveTree(fs, src, dst)]

\* what LISTING_SCRIPT prints for root (the order of the entries is dropped)
Listing(fs, root) ==
    [exists |-> KindAt(fs, root) # "absent",
     is_dir |-> KindAt(fs, root) = "dir",
     entries |-> { [name |-> basename(CharsOf[n]), path |-> n,
                    is_dir |-> fs[n].kind = "dir",
                    size |-> IF fs[n].kind = "file" THEN Len(fs[n].data) ELSE -1] :
                   n \in { m \in FsNodes : fs[m].kind # "absent" /\ Parent(m) = root } }]


(***************************************************************************)
(* _get_running_container                                                  *)
(***************************************************************************)
\* (variant: the container's status is not looked at)
GetContainerAnyStatus(cs, session_id) ==
    IF cs[_container_name(session_id)].status = "absent"
    THEN [error |-> HttpError(404, "Runner session not found"),
          calls |-> <<"containers.get">>]
    ELSE [error |-> NoError, calls |-> <<"containers.get", "container.reload">>]

_get_running_container(cs, session_id) ==
    LET c == cs[_container_name(session_id)]
    IN IF c.status = "absent"
       THEN [error |-> HttpError(404, "Runner session not found"),
             calls |-> <<"containers.get">>]
       ELSE IF c.status # "running"
       THEN [error |-> HttpError(409, "Runner session is not running"),
             calls |-> <<"containers.get", "container.reload">>]
       ELSE [error |-> NoError, calls |-> <<"containers.get", "container.reload">>]

\* the filesystem the session's sandbox sees: its volume at /workspace and
\* its own root filesystem elsewhere
SandboxFs(cs, vs, sid) ==
    [n \in FsNodes |->
        IF n \in InsideNodes THEN vs[_volume_name(sid)].content[n]
        ELSE cs[_container_name(sid)].local[n]]

(***************************************************************************)
(* Filesystem Gateway                                                      *)
(***************************************************************************)
Unhandled == HttpError(500, "Internal Server Error")

\* directory = os.path.dirname(target) or WORKSPACE_ROOT
WriteDirectory(target) ==
    LET parent == dirname(target)
    IN IF parent = <<>> THEN WORKSPACE_ROOT ELSE parent

\* _write_bytes
_write_bytes(fs, target, raw_bytes) ==
    LET directory == Intern(WriteDirectory(CharsOf[target]))
        made == MkdirP(fs, directory)
        put == PutArchive(made.fs, directory, TarOfFile(basename(CharsOf[target]), raw_bytes))
    IN IF ~made.ok
       THEN [error |-> HttpError(500, "Failed to prepare directory"), fs |-> made.fs,
             calls |-> <<"exec:mkdir">>]
       ELSE IF ~put.ok
       THEN [error |-> Unhandled, fs |-> put.fs, calls |-> <<"exec:mkdir", "put_archive">>]
       ELSE [error |-> NoError, fs |-> put.fs, calls |-> <<"exec:mkdir", "put_archive">>]

list_path(cs, fs, sid, path) ==
    LET got == _get_running_container(cs, sid)
        target == ListTarget(path)
        t == Intern(target.value)
    IN IF ~got.error.ok THEN [result |-> got.error, fs |-> fs, calls |-> got.calls]
       ELSE IF ~target.ok THEN [result |-> target, fs |-> fs, calls |-> got.calls]
       ELSE IF KindAt(fs, t) = "file"
       THEN \* os.listdir raises in the script: it exits non-zero
            [result |-> HttpError(500, "Failed to list directory"), fs |-> fs,
             calls |-> got.calls \o <<"exec:list">>]
       ELSE IF ~Listing(fs, t).exists
       THEN [result |-> HttpError(404, "Path not found"), fs |-> fs,
             calls |-> got.calls \o <<"exec:list">>]
       ELSE [result |-> Ok([path |-> t, listing |-> Listing(fs, t)]), fs |-> fs,
             calls |-> got.calls \o <<"exec:list">>]

read_file(cs, fs, sid, path) ==
    LET got == _get_running_container(cs, sid)
        target == _sanitize_workspace_path(path)
        t == Intern(target.value)
        member == GetArchive(fs, t)
    IN IF ~got.error.ok THEN [result |-> got.error, fs |-> fs, calls |-> got.calls]
       ELSE IF ~target.ok THEN [result |-> target, fs |-> fs, calls |-> got.calls]
       ELSE IF ~member.found
       THEN [result |-> HttpError(404, "File not found"), fs |-> fs,
             calls |-> got.calls \o <<"get_archive">>]
       ELSE IF ~member.isfile
       THEN [result |-> HttpError(400, "Target is not a regular file"), fs |-> fs,
             calls |-> got.calls \o <<"get_archive">>]
       ELSE [result |-> Ok([path |-> t, encoding |-> "base64",
                            content |-> b64encode(SubSeq(member.data, 1, member.size))]),
             fs |-> fs, calls |-> got.calls \o <<"get_archive">>]

write_file(cs, fs, sid, path, content, encoding) ==
    LET raw_bytes == b64decode(content)
        got == _get_running_container(cs, sid)
        target == _sanitize_workspace_path(path)
        t == Intern(target.value)
        written == _write_bytes(fs, t, raw_bytes.value)
    IN IF encoding # "base64"
       THEN [result |-> HttpError(400, "Only base64 encoding is supported"), fs |-> fs,
             calls |-> <<>>]
       ELSE IF ~raw_bytes.ok THEN [result |-> raw_bytes, fs |-> fs, calls |-> <<>>]
       ELSE IF ~got.error.ok THEN [result |-> got.error, fs |-> fs, calls |-> got.calls]
       ELSE IF ~target.ok THEN [result |-> target, fs |-> fs, calls |-> got.calls]
       ELSE IF ~written.error.ok
       THEN [result |-> written.error, fs |-> written.fs,
             calls |-> got.calls \o written.calls]
       ELSE [result |-> Ok([ok |-> TRUE, path |-> t]), fs |-> written.fs,
             calls |-> got.calls \o written.calls]

\* content is None when the request has none
create_entry(cs, fs, sid, path, kind, content, encoding) ==
    LET got == _get_running_container(cs, sid)
        target == _sanitize_workspace_path(path)
        t == Intern(target.value)
        made == MkdirP(fs, t)
        raw_bytes == b64decode(IF content.present THEN content.text ELSE <<>>)
        written == _write_bytes(fs, t, raw_bytes.value)
    IN IF ~got.error.ok THEN [result |-> got.error, fs |-> fs, calls |-> got.calls]
       ELSE IF ~target.ok THEN [result |-> target, fs |-> fs, calls |-> got.calls]
       ELSE IF kind = "directory"
       THEN IF ~made.ok
            THEN [result |-> HttpError(500, "Failed to create directory"), fs |-> made.fs,
                  calls |-> got.calls \o <<"exec:mkdir">>]
            ELSE [result |-> Ok([ok |-> TRUE, path |-> t, kind |-> "directory"]),
                  fs |-> made.fs, calls |-> got.calls \o <<"exec:mkdir">>]
       ELSE IF encoding # "base64"
       THEN [result |-> HttpError(400, "Only base64 encoding is supported"), fs |-> fs,
             calls |-> got.calls]
       ELSE IF ~raw_bytes.ok THEN [result |-> raw_bytes, fs |-> fs, calls |-> got.calls]
       ELSE IF ~written.error.ok
       THEN [result |-> written.error, fs |-> written.fs,
             calls |-> got.calls \o written.calls]
       ELSE [result |-> Ok([ok |-> TRUE, path |-> t, kind |-> "file"]),
             fs |-> written.fs, calls |-> got.calls \o written.calls]

rename_entry(cs, fs, sid, path, new_path) ==
    LET got == _get_running_container(cs, sid)
        source == _sanitize_workspace_path(path)
        destination == _sanitize_workspace_path(new_path)
        src == Intern(source.value)
        dst == Intern(destination.value)
        dest_parent == IF dirname(CharsOf[dst]) = <<>> THEN WORKSPACE_ROOT
                       ELSE dirname(CharsOf[dst])
        parent == MkdirP(fs, Intern(dest_parent))
        moved == Move(parent.fs, src, dst)
    IN IF ~got.error.ok THEN [result |-> got.error, fs |-> fs, calls |-> got.calls]
       ELSE IF ~source.ok THEN [result |-> source, fs |-> fs, calls |-> got.calls]
       ELSE IF ~destination.ok THEN [result |-> destination, fs |-> fs, calls |-> got.calls]
       ELSE IF src = dst
       THEN [result |-> HttpError(400, "Source and destination paths are identical"),
             fs |-> fs, calls |-> got.calls]
       ELSE IF KindAt(fs, src) = "absent"
       THEN [result |-> HttpError(404, "Source path not found"), fs |-> fs,
             calls |-> got.calls \o <<"exec:test-e">>]
       ELSE IF ~parent.ok
       THEN [result |-> HttpError(500, "Failed to prepare destination directory"),
             fs |-> parent.fs, calls |-> got.calls \o <<"exec:test-e", "exec:mkdir">>]
       ELSE IF ~moved.ok
       THEN [result |-> HttpError(500, "Failed to rename path"), fs |-> moved.fs,
             calls |-> got.calls \o <<"exec:test-e", "exec:mkdir", "exec:mv">>]
       ELSE [result |-> Ok([ok |-> TRUE, path |-> src, new_path |-> dst]),
             fs |-> moved.fs,
             calls |-> got.calls \o <<"exec:test-e", "exec:mkdir", "exec:mv">>]

delete_entry(cs, fs, sid, path) ==
    LET got == _get_running_container(cs, sid)
        target == _sanitize_workspace_path(path)
        t == Intern(target.value)
    IN IF ~got.error.ok THEN [result |-> got.error, fs |-> fs, calls |-> got.calls]
       ELSE IF ~target.ok THEN [result |-> target, fs |-> fs, calls |-> got.calls]
       ELSE IF target.value = WORKSPACE_ROOT
       THEN [result |-> HttpError(400, "Cannot delete workspace root"), fs |-> fs,
             calls |-> got.calls]
       ELSE IF KindAt(fs, t) = "absent"
       THEN [result |-> HttpError(404, "Path not found"), fs |-> fs,
             calls |-> got.calls \o <<"exec:test-e">>]
       ELSE [result |-> Ok([ok |-> TRUE, path |-> t]), fs |-> RmRf(fs, t),
             calls |-> got.calls \o <<"exec:test-e", "exec:rm">>]

\* a filesystem request is served: the response, the calls made for it and
\* the sandbox's files afterwards
ServeFs(op, sid, r, ghost) ==
    /\ startPc = "idle"
    /\ resp' = Response(op, sid, r.result, ghost)
    /\ calls' = r.calls
    /\ volumes' = [volumes EXCEPT ![_volume_name(sid)].content =
                      [n \in InsideNodes |-> r.fs[n]]]
    /\ containers' = [containers EXCEPT ![_container_name(sid)].local =
                         [n \in OutsideNodes |-> r.fs[n]]]
    /\ UNCHANGED <<startVars, pathVars, termVars, appVars>>

\* what the request was, and the sandbox's status when it came in (not
\* program state)
FsGhost(sid, path, new_path, content, encoding, kind) ==
    [path |-> path, new_path |-> new_path, content |-> content,
     encoding |-> encoding, kind |-> kind,
     status |-> containers[_container_name(sid)].status,
     held |-> NoEntry, follows |-> None]

ListPath(sid, path) ==
    ServeFs("list", sid,
            list_path(containers, SandboxFs(containers, volumes, sid), sid, path),
            FsGhost(sid, path, None, None, "", ""))

\* the content of the write request served just before, when that write
\* succeeded on the same session and the same target
WrittenJustBefore(sid, path) ==
    IF /\ resp.op = "write"
       /\ resp.result.ok
       /\ resp.session = sid
       /\ _sanitize_workspace_path(path).ok
       /\ resp.result.value.path = Intern(_sanitize_workspace_path(path).value)
    THEN [present |-> TRUE, text |-> resp.pre.content.text, over |-> resp.pre.held]
    ELSE None

\* the entry at the request's target when the request came in
HeldAt(sid, path) ==
    LET target == _sanitize_workspace_path(path)
    IN IF target.ok /\ IsKnown(target.value) /\ Intern(target.value) \in FsNodes
       THEN SandboxFs(containers, volumes, sid)[Intern(target.value)]
       ELSE NoEntry

ReadFile(sid, path) ==
    ServeFs("read", sid,
            read_file(containers, SandboxFs(containers, volumes, sid), sid, path),
            [FsGhost(sid, Some(path), None, None, "", "") EXCEPT
                !.follows = WrittenJustBefore(sid, path)])

WriteFile(sid, path, content, encoding) ==
    ServeFs("write", sid,
            write_file(containers, SandboxFs(containers, volumes, sid), sid, path,
                       content, encoding),
            [FsGhost(sid, Some(path), None, Some(content), encoding, "") EXCEPT
                !.held = HeldAt(sid, path)])

CreateEntry(sid, path, kind, content, encoding) ==
    ServeFs("create", sid,
            create_entry(containers, SandboxFs(containers, volumes, sid), sid, path,
                         kind, content, encoding),
            FsGhost(sid, Some(path), None, content, encoding, kind))

RenameEntry(sid, path, new_path) ==
    ServeFs("rename", sid,
            rename_entry(containers, SandboxFs(containers, volumes, sid), sid, path,
                         new_path),
            FsGhost(sid, Some(path), Some(new_path), None, "", ""))

DeleteEntry(sid, path) ==
    ServeFs("delete", sid,
            delete_entry(containers, SandboxFs(containers, volumes, sid), sid, path),
            FsGhost(sid, Some(path), None, None, "", ""))

(***************************************************************************)
(* Build/run pipeline: build_image, run_image, stop_run, exec_in_runner.   *)
(* A command's outcome is what the sandbox gives back: an exit code, the   *)
(* output lines and the time it took, in milliseconds (round(elapsed, 3)   *)
(* keeps milliseconds); or the engine call itself raised.                  *)
(***************************************************************************)
MAX_LOG_LINES == 200

\* (variant: the first lines are kept, not the last)
TrimKeepsHead(logs, limit) ==
    IF Len(logs) <= limit THEN logs
    ELSE <<"... (truncated) ...">> \o SubSeq(logs, 1, limit)

\* (variant: the marker replaces the first of the lines kept)
TrimMarkerTakesALine(logs, limit) ==
    IF Len(logs) <= limit THEN logs
    ELSE <<"... (truncated) ...">> \o SubSeq(logs, Len(logs) - limit + 2, Len(logs))

\* _trim_logs
_trim_logs(logs, limit) ==
    IF Len(logs) <= limit THEN logs
    ELSE <<"... (truncated) ...">> \o SubSeq(logs, Len(logs) - limit + 1, Len(logs))

\* an optional name or tag of a request
NoName == [present |-> FALSE]
Named(n) == [present |-> TRUE, name |-> n]

\* the kind of the entry a command running in the sandbox finds at a path
KindOf(fs, chars) ==
    IF IsKnown(normpath(chars)) THEN KindAt(fs, Intern(normpath(chars))) ELSE "absent"

\* (variant: the test always succeeds)
AssertPathAlwaysPasses(fs, path, workdir, expect_directory) == NoError

\* _assert_path_exists: test -d / test -f, relative paths taken from workdir
_assert_path_exists(fs, path, workdir, expect_directory) ==
    LET full == IF StartsWith(path, <<Slash>>) THEN path ELSE pathjoin(workdir, path)
        wanted == IF expect_directory THEN "dir" ELSE "file"
    IN IF KindOf(fs, full) = wanted THEN NoError
       ELSE HttpError(404, IF expect_directory THEN "Expected directory not found in runner"
                           ELSE "Expected file not found in runner")

\* "CACHED" in line.upper()
IsCacheHit(line) == line \in { "#1 CACHED", "#2 cached" }

RECURSIVE CacheHits(_)
CacheHits(logs) ==
    IF logs = <<>> THEN 0
    ELSE (IF IsCacheHit(Head(logs)) THEN 1 ELSE 0) + CacheHits(Tail(logs))

\* _collect_image_metrics: the image is inspected, then its history listed;
\* both succeed exactly for an image the nested engine has
_collect_image_metrics(images, image_tag, elapsed, build_logs) ==
    [metrics |-> [elapsed_seconds |-> elapsed,
                  cache_hits |-> CacheHits(build_logs),
                  has_size |-> image_tag \in images,
                  has_layers |-> image_tag \in images],
     calls |-> <<"exec:docker-inspect", "exec:docker-history">>]

\* build_image; out is the build command's outcome
build_image(cs, fs, sid, context_path, dockerfile_path, tag, out) ==
    LET got == _get_running_container(cs, sid)
        c == cs[_container_name(sid)]
        context == _assert_path_exists(fs, context_path, <<>>, TRUE)
        dockerfile == _assert_path_exists(fs, dockerfile_path, context_path, FALSE)
        image_tag == IF tag.present THEN tag.name ELSE _default_image_tag(sid)
        trimmed_logs == _trim_logs(out.logs, MAX_LOG_LINES)
        built == [c EXCEPT !.images = @ \cup {image_tag}]
        collected == _collect_image_metrics(built.images, image_tag, out.elapsed, out.logs)
    IN IF ~got.error.ok THEN [result |-> got.error, container |-> c, calls |-> got.calls]
       ELSE IF ~StartsWith(context_path, <<Slash>>)
       THEN [result |-> HttpError(400, "context_path must be absolute inside the runner"),
             container |-> c, calls |-> got.calls]
       ELSE IF ~context.ok
       THEN [result |-> context, container |-> c, calls |-> got.calls \o <<"exec:test-d">>]
       ELSE IF ~dockerfile.ok
       THEN [result |-> dockerfile, container |-> c,
             calls |-> got.calls \o <<"exec:test-d", "exec:test-f">>]
       ELSE IF out.exit_code # 0
       THEN [result |-> [ok |-> FALSE, status |-> 500, detail |-> "docker build failed",
                         logs |-> trimmed_logs],
             container |-> c,
             calls |-> got.calls \o <<"exec:test-d", "exec:test-f", "exec:docker-build">>]
       ELSE [result |-> Ok([image_tag |-> image_tag, logs |-> trimmed_logs,
                            metrics |-> collected.metrics]),
             container |-> built,
             calls |-> got.calls \o <<"exec:test-d", "exec:test-f", "exec:docker-build">>
                       \o collected.calls]

\* (variant: every name is reported as listed)
InnerAlwaysListed(c, name) == TRUE

\* _inner_container_exists: docker ps -a filtered by the exact name
_inner_container_exists(c, name) == c.apps[name] # "absent"

\* (variant: the listing is made, nothing is removed)
RemoveInnerSkipped(c, name) ==
    [container |-> c, calls |-> <<"exec:docker-ps">>]

\* (variant: exec_in_runner raises on a non-zero exit code)
ExecRaisesOnFailure(cs, sid, command, out) ==
    LET got == _get_running_container(cs, sid)
        c == cs[_container_name(sid)]
    IN IF ~got.error.ok THEN [result |-> got.error, container |-> c, calls |-> got.calls]
       ELSE IF "raised" \in DOMAIN out \/ out.exit_code # 0
       THEN [result |-> HttpError(500, "Internal Server Error"), container |-> c,
             calls |-> got.calls \o <<"exec:command">>]
       ELSE [result |-> Ok([exit_code |-> out.exit_code, logs |-> out.logs,
                            elapsed_seconds |-> out.elapsed]),
             container |-> c, calls |-> got.calls \o <<"exec:command">>]

\* _remove_inner_container: docker rm -f when the name is listed
_remove_inner_container(c, name) ==
    IF ~_inner_container_exists(c, name)
    THEN [container |-> c, calls |-> <<"exec:docker-ps">>]
    ELSE [container |-> [c EXCEPT !.apps[name] = "absent"],
          calls |-> <<"exec:docker-ps", "exec:docker-rm-f">>]

\* ":" in mapping
HasColon(mapping) == \E i \in 1..Len(mapping) : mapping[i] = ":"

\* docker run in the nested engine: refused when the name is taken,
\* otherwise as the image and the engine decide (out)
DockerRun(c, name, detach, auto_remove, out) ==
    IF c.apps[name] # "absent"
    THEN [exit_code |-> 125, logs |-> <<"name already in use">>,
          elapsed |-> out.elapsed, container |-> c]
    ELSE IF out.exit_code # 0
    THEN [exit_code |-> out.exit_code, logs |-> out.logs, elapsed |-> out.elapsed,
          container |-> c]
    ELSE [exit_code |-> 0, logs |-> out.logs, elapsed |-> out.elapsed,
          container |-> [c EXCEPT !.apps[name] =
                            IF detach THEN "running"
                            ELSE IF auto_remove THEN "absent" ELSE "exited"]]

\* run_image
run_image(cs, sid, image, name, ports, detach, auto_remove, remove_existing, out) ==
    LET got == _get_running_container(cs, sid)
        c == cs[_container_name(sid)]
        inner_name == IF name.present THEN name.name ELSE _default_run_container_name(sid)
        cleared == IF remove_existing THEN _remove_inner_container(c, inner_name)
                   ELSE [container |-> c, calls |-> <<>>]
        ran == DockerRun(cleared.container, inner_name, detach, auto_remove, out)
        trimmed_logs == _trim_logs(ran.logs, MAX_LOG_LINES)
    IN IF ~got.error.ok THEN [result |-> got.error, container |-> c, calls |-> got.calls]
       ELSE IF \E i \in 1..Len(ports) : ~HasColon(ports[i])
       THEN [result |-> HttpError(400, "Port mapping must be in HOST:CONTAINER form"),
             container |-> cleared.container, calls |-> got.calls \o cleared.calls]
       ELSE IF ran.exit_code # 0
       THEN [result |-> [ok |-> FALSE, status |-> 500, detail |-> "docker run failed",
                         logs |-> trimmed_logs],
             container |-> ran.container,
             calls |-> got.calls \o cleared.calls \o <<"exec:docker-run">>]
       ELSE [result |-> Ok([container_name |-> inner_name, logs |-> trimmed_logs,
                            elapsed_seconds |-> ran.elapsed]),
             container |-> ran.container,
             calls |-> got.calls \o cleared.calls \o <<"exec:docker-run">>]

\* (variant: a failing docker stop ends the request whatever ignore_missing is)
StopRunFailsOnFailedStop(cs, sid, container_name, remove, ignore_missing, stopped, removed) ==
    LET got == _get_running_container(cs, sid)
        c == cs[_container_name(sid)]
        inner_name == IF container_name.present THEN container_name.name
                      ELSE _default_run_container_name(sid)
        afterStop == IF stopped.exit_code = 0 THEN [c EXCEPT !.apps[inner_name] = "exited"]
                     ELSE c
        \* docker rm refuses a container that is still running
        rm_code == IF afterStop.apps[inner_name] = "running" /\ removed.exit_code = 0
                   THEN 1 ELSE removed.exit_code
        afterRm == IF rm_code = 0 THEN [afterStop EXCEPT !.apps[inner_name] = "absent"]
                   ELSE afterStop
        trimmed_logs == _trim_logs(stopped.logs, MAX_LOG_LINES)
        probe == got.calls \o <<"exec:docker-ps">>
    IN IF ~got.error.ok THEN [result |-> got.error, container |-> c, calls |-> got.calls]
       ELSE IF ~_inner_container_exists(c, inner_name)
       THEN IF ignore_missing
            THEN [result |-> Ok([ok |-> TRUE, stopped |-> FALSE]), container |-> c,
                  calls |-> probe]
            ELSE [result |-> HttpError(404, "Inner container not found"), container |-> c,
                  calls |-> probe]
       ELSE IF stopped.exit_code # 0
       THEN [result |-> [ok |-> FALSE, status |-> 500,
                         detail |-> "Failed to stop inner container",
                         logs |-> trimmed_logs],
             container |-> afterStop, calls |-> probe \o <<"exec:docker-stop">>]
       ELSE IF ~remove
       THEN [result |-> Ok([ok |-> stopped.exit_code = 0, stopped |-> stopped.exit_code = 0,
                            removed |-> "null", logs |-> trimmed_logs]),
             container |-> afterStop, calls |-> probe \o <<"exec:docker-stop">>]
       ELSE IF rm_code # 0 /\ ~ignore_missing
       THEN [result |-> [ok |-> FALSE, status |-> 500,
                         detail |-> "Failed to remove inner container",
                         logs |-> _trim_logs(removed.logs, MAX_LOG_LINES)],
             container |-> afterRm,
             calls |-> probe \o <<"exec:docker-stop", "exec:docker-rm">>]
       ELSE [result |-> Ok([ok |-> stopped.exit_code = 0, stopped |-> stopped.exit_code = 0,
                            removed |-> IF rm_code = 0 THEN "true" ELSE "false",
                            logs |-> trimmed_logs]),
             container |-> afterRm,
             calls |-> probe \o <<"exec:docker-stop", "exec:docker-rm">>]

\* stop_run; stopped and removed are the outcomes of docker stop and docker rm
stop_run(cs, sid, container_name, remove, ignore_missing, stopped, removed) ==
    LET got == _get_running_container(cs, sid)
        c == cs[_container_name(sid)]
        inner_name == IF container_name.present THEN container_name.name
                      ELSE _default_run_container_name(sid)
        afterStop == IF stopped.exit_code = 0 THEN [c EXCEPT !.apps[inner_name] = "exited"]
                     ELSE c
        \* docker rm refuses a container that is still running
        rm_code == IF afterStop.apps[inner_name] = "running" /\ removed.exit_code = 0
                   THEN 1 ELSE removed.exit_code
        afterRm == IF rm_code = 0 THEN [afterStop EXCEPT !.apps[inner_name] = "absent"]
                   ELSE afterStop
        trimmed_logs == _trim_logs(stopped.logs, MAX_LOG_LINES)
        probe == got.calls \o <<"exec:docker-ps">>
    IN IF ~got.error.ok THEN [result |-> got.error, container |-> c, calls |-> got.calls]
       ELSE IF ~_inner_container_exists(c, inner_name)
       THEN IF ignore_missing
            THEN [result |-> Ok([ok |-> TRUE, stopped |-> FALSE]), container |-> c,
                  calls |-> probe]
            ELSE [result |-> HttpError(404, "Inner container not found"), container |-> c,
                  calls |-> probe]
       ELSE IF stopped.exit_code # 0 /\ ~ignore_missing
       THEN [result |-> [ok |-> FALSE, status |-> 500,
                         detail |-> "Failed to stop inner container",
                         logs |-> trimmed_logs],
             container |-> afterStop, calls |-> probe \o <<"exec:docker-stop">>]
       ELSE IF ~remove
       THEN [result |-> Ok([ok |-> stopped.exit_code = 0, stopped |-> stopped.exit_code = 0,
                            removed |-> "null", logs |-> trimmed_logs]),
             container |-> afterStop, calls |-> probe \o <<"exec:docker-stop">>]
       ELSE IF rm_code # 0 /\ ~ignore_missing
       THEN [result |-> [ok |-> FALSE, status |-> 500,
                         detail |-> "Failed to remove inner container",
                         logs |-> _trim_logs(removed.logs, MAX_LOG_LINES)],
             container |-> afterRm,
             calls |-> probe \o <<"exec:docker-stop", "exec:docker-rm">>]
       ELSE [result |-> Ok([ok |-> stopped.exit_code = 0, stopped |-> stopped.exit_code = 0,
                            removed |-> IF rm_code = 0 THEN "true" ELSE "false",
                            logs |-> trimmed_logs]),
             container |-> afterRm,
             calls |-> probe \o <<"exec:docker-stop", "exec:docker-rm">>]

\* container.exec_run raised (docker.errors.APIError): no handler catches it
EngineError == [raised |-> TRUE]
Raises(out) == "raised" \in DOMAIN out

\* exec_in_runner: the command's outcome is returned whatever it is
exec_in_runner(cs, sid, command, out) ==
    LET got == _get_running_container(cs, sid)
        c == cs[_container_name(sid)]
    IN IF ~got.error.ok THEN [result |-> got.error, container |-> c, calls |-> got.calls]
       ELSE IF Raises(out)
       THEN [result |-> Unhandled, container |-> c,
             calls |-> got.calls \o <<"exec:command">>]
       ELSE [result |-> Ok([exit_code |-> out.exit_code,
                            logs |-> _trim_logs(out.logs, MAX_LOG_LINES),
                            elapsed_seconds |-> out.elapsed]),
             container |-> c, calls |-> got.calls \o <<"exec:command">>]

\* a pipeline request is served
ServePipeline(op, sid, r, ghost) ==
    /\ startPc = "idle"
    /\ resp' = Response(op, sid, r.result, ghost)
    /\ calls' = r.calls
    /\ containers' = [containers EXCEPT ![_container_name(sid)] = r.container]
    /\ UNCHANGED <<volumes, startVars, pathVars, termVars, appVars>>

\* the sandbox's status when the request came in (not program state)
StatusAt(sid) == containers[_container_name(sid)].status

\* the state of the named application container when the request came in
AppAt(sid, name) ==
    containers[_container_name(sid)].apps[
        IF name.present THEN name.name ELSE _default_run_container_name(sid)]

\* the request served just before was a run of the same name on the same
\* session, and it succeeded
RanJustBefore(sid, name) ==
    /\ resp.op = "run"
    /\ resp.session = sid
    /\ resp.result.ok
    /\ resp.result.value.container_name =
           (IF name.present THEN name.name ELSE _default_run_container_name(sid))

BuildImage(sid, context_path, dockerfile_path, tag, out) ==
    ServePipeline("build", sid,
                  build_image(containers, SandboxFs(containers, volumes, sid), sid,
                              context_path, dockerfile_path, tag, out),
                  [status |-> StatusAt(sid), context_path |-> context_path,
                   dockerfile_path |-> dockerfile_path, image_tag |-> tag,
                   out |-> out])

RunImage(sid, image, name, ports, detach, auto_remove, remove_existing, out) ==
    ServePipeline("run", sid,
                  run_image(containers, sid, image, name, ports, detach, auto_remove,
                            remove_existing, out),
                  [status |-> StatusAt(sid), image |-> image, name |-> name,
                   ports |-> ports, detach |-> detach,
                   remove_existing |-> remove_existing,
                   existed |-> AppAt(sid, name) # "absent",
                   repeats |-> RanJustBefore(sid, name), out |-> out])

StopRun(sid, container_name, remove, ignore_missing, stopped, removed) ==
    ServePipeline("stop_run", sid,
                  stop_run(containers, sid, container_name, remove, ignore_missing,
                           stopped, removed),
                  [status |-> StatusAt(sid), container_name |-> container_name,
                   remove |-> remove, ignore_missing |-> ignore_missing,
                   existed |-> AppAt(sid, container_name) # "absent",
                   stopped |-> stopped, removed |-> removed])

ExecInRunner(sid, command, out) ==
    ServePipeline("exec", sid, exec_in_runner(containers, sid, command, out),
                  [status |-> StatusAt(sid), command |-> command, out |-> out])

(***************************************************************************)
(* Terminal: terminal_websocket.  One websocket is served at a time.  The  *)
(* handler accepts, resolves the running sandbox, creates and starts a PTY *)
(* exec, and runs two pumps under asyncio.gather until both have returned  *)
(* or one has raised; then it closes the raw socket and the websocket.     *)
(* term.pc is the handler's position, term.outPc and term.inPc those of    *)
(* pump_container_to_client and pump_client_to_container.  term.shell and  *)
(* term.client are the two peers: the exec'd shell behind the raw socket   *)
(* and the browser behind the websocket.                                   *)
(***************************************************************************)
MaxTerminals == 1

\* websocket.close(code=1011, ...) of the handler's failure path
TerminalFailureCode == 1011

\* raw_sock.settimeout(5.0), and the idle window of the keepalive, in seconds
RecvTimeout == 5
PingInterval == 30

\* Text frames a client sends.  NoJson and EmptyFrame are not JSON;
\* JsonNumber and JsonString are JSON but no object; DeepFrame stands for
\* brackets nested deeper than the interpreter's recursion limit (some
\* thousand of "[", closed or not); the others are JSON objects.
NoJson == "ls"
EmptyFrame == ""
JsonNumber == "42"
JsonString == "\"hi\""
DeepFrame == "[[[[...]]]]"
InputFrame == "{\"type\":\"input\",\"data\":\"x\"}"
SurrogateFrame == "{\"type\":\"input\",\"data\":\"\\ud800\"}"
PongFrame == "{\"type\":\"pong\"}"
ResizeFrame == "{\"type\":\"resize\",\"cols\":80,\"rows\":24}"
BadResizeFrame == "{\"type\":\"resize\",\"cols\":\"80\"}"
Frames ==
    { NoJson, EmptyFrame, JsonNumber, JsonString, DeepFrame, InputFrame,
      SurrogateFrame, PongFrame, ResizeFrame, BadResizeFrame }

\* a parsed JSON object, as far as the pump looks at it: payload.get("type"),
\* payload.get("data", ""), whether data.encode("utf-8") succeeds, and
\* whether cols and rows are both ints
Payload(type, data, encodable, sized) ==
    [type |-> type, data |-> data, encodable |-> encodable, sized |-> sized]

\* json.loads on the frames above: a dict, a value that is no dict, or an
\* exception, json.JSONDecodeError for text that is not JSON and
\* RecursionError for nesting beyond the recursion limit
JsonLoads(message) ==
    CASE message \in { NoJson, EmptyFrame } -> [outcome |-> "JSONDecodeError"]
      [] message = DeepFrame -> [outcome |-> "RecursionError"]
      [] message \in { JsonNumber, JsonString } -> [outcome |-> "value"]
      [] message = InputFrame ->
            [outcome |-> "dict", payload |-> Payload("input", "x", TRUE, FALSE)]
      [] message = SurrogateFrame ->
            [outcome |-> "dict", payload |-> Payload("input", "<U+D800>", FALSE, FALSE)]
      [] message = PongFrame ->
            [outcome |-> "dict", payload |-> Payload("pong", "", TRUE, FALSE)]
      [] message = ResizeFrame ->
            [outcome |-> "dict", payload |-> Payload("resize", "", TRUE, TRUE)]
      [] message = BadResizeFrame ->
            [outcome |-> "dict", payload |-> Payload("resize", "", TRUE, FALSE)]

\* the payload the pump handles: the parsed object, or
\* {"type": "input", "data": message} when json.loads gave a value that is
\* no dict or raised json.JSONDecodeError
ParsePayload(message) ==
    LET parsed == JsonLoads(message)
    IN IF parsed.outcome = "dict" THEN parsed.payload
       ELSE Payload("input", message, TRUE, FALSE)

\* outcomes of exec_resize: done, or docker.errors.APIError
ResizeOutcomes == { "ok", "failed" }
ExecOutcomes == { "ok", "create_fails", "start_fails" }

\* the handler's `except Exception` branch, reached before any pump started
TerminalFailed(sid, st, why, n) ==
    [NoTerminal EXCEPT !.pc = "done", !.session = sid, !.status = st,
                       !.ws = "closed", !.code = TerminalFailureCode,
                       !.reason = why, !.client = "connected", !.execs = n]

\* accept, _get_running_container, exec_create, exec_start, settimeout
TerminalOpen(sid, engine) ==
    /\ startPc = "idle"
    /\ term.pc \in {"none", "done"}
    /\ term.outPc \in {"none", "done"}
    /\ term.execs < MaxTerminals
    /\ LET got == _get_running_container(containers, sid)
           st == containers[_container_name(sid)].status
       IN term' =
            IF got.error.ok = FALSE
            THEN TerminalFailed(sid, st, got.error.detail, term.execs)
            ELSE IF engine = "create_fails"
            THEN TerminalFailed(sid, st, "exec_create failed", term.execs)
            ELSE IF engine = "start_fails"
            THEN TerminalFailed(sid, st, "exec_start failed", term.execs + 1)
            ELSE [NoTerminal EXCEPT !.pc = "pumping", !.session = sid, !.status = st,
                                    !.ws = "open", !.sock = "open",
                                    !.outPc = "loop", !.inPc = "loop",
                                    !.shell = "alive", !.client = "connected",
                                    !.execs = term.execs + 1]
    /\ UNCHANGED <<engineVars, startVars, reqVars, pathVars, appVars>>

\* pump_container_to_client: `while not stop_event.is_set()`; the pump's
\* `finally` sets the stop event when the loop is left.  A new round has
\* sent nothing yet.
OutLoop ==
    /\ term.outPc = "loop"
    /\ term' = IF term.stop_event
               THEN [term EXCEPT !.outPc = "done", !.sent = "none", !.idle = 0]
               ELSE [term EXCEPT !.outPc = "recv", !.sent = "none"]
    /\ UNCHANGED <<engineVars, startVars, reqVars, pathVars, appVars>>

OutStopped ==
    [term EXCEPT !.outPc = "done", !.stop_event = TRUE, !.sent = "none", !.idle = 0]

\* a send on the websocket raises once the connection is closed; whether it
\* raises on a peer that went away without the close having been seen
\* depends on the server underneath, so both outcomes are allowed
SendRaises(raises) ==
    \/ term.ws = "closed"
    \/ term.client = "disconnected" /\ raises

\* the `except (TimeoutError, OSError)` branch after `elapsed` more seconds
\* without a frame sent: a ping when more than PingInterval seconds have
\* passed since last_ping, then `continue`
KeepAlive(elapsed, raises) ==
    IF term.idle + elapsed > PingInterval
    THEN IF SendRaises(raises) THEN OutStopped
         ELSE [term EXCEPT !.outPc = "loop", !.idle = 0, !.sent = "ping"]
    ELSE [term EXCEPT !.outPc = "loop", !.idle = @ + elapsed, !.sent = "none"]

\* one raw_sock.recv(4096) and what follows it.  On an open socket to a
\* living shell the read returns bytes (event "data"), which are forwarded
\* with send_text, or times out after RecvTimeout seconds (event "timeout").
\* After the shell has exited it returns b"" and the loop is left.  On a
\* broken or closed socket it raises OSError, at once or after a while; that
\* is caught by the same branch as the timeout.  term.idle is
\* time.time() - last_ping; term.sent is what this round sent to the client.
OutRecv(event, raises) ==
    /\ term.outPc = "recv"
    /\ term' =
         IF term.sock = "closed" \/ term.shell = "broken"
         THEN KeepAlive(IF event = "timeout" THEN RecvTimeout ELSE 0, raises)
         ELSE IF term.shell = "exited"
         THEN OutStopped
         ELSE IF event = "data"
         THEN IF SendRaises(raises) THEN OutStopped
              ELSE [term EXCEPT !.outPc = "loop", !.idle = 0, !.sent = "data"]
         ELSE KeepAlive(RecvTimeout, raises)
    /\ UNCHANGED <<engineVars, startVars, reqVars, pathVars, appVars>>

\* pump_client_to_container: `while not stop_event.is_set()`; a new round
\* has handled no frame yet
InLoop ==
    /\ term.inPc = "loop"
    /\ term' = IF term.stop_event
               THEN [term EXCEPT !.inPc = "done", !.wrote = "", !.resize = "none"]
               ELSE [term EXCEPT !.inPc = "receive", !.wrote = "", !.resize = "none"]
    /\ UNCHANGED <<engineVars, startVars, reqVars, pathVars, appVars>>

\* (variant: an APIError of exec_resize is not caught)
HandleFrameResizeFatal(message, raises, resized) ==
    LET payload == ParsePayload(message)
        t == [term EXCEPT !.inbox = Tail(@), !.wrote = "", !.resize = "none"]
        raised == [t EXCEPT !.inPc = "raised", !.stop_event = TRUE]
    IN IF JsonLoads(message).outcome = "RecursionError"
       THEN raised
       ELSE IF payload.type = "input" /\ payload.data # ""
       THEN IF \/ ~payload.encodable
               \/ term.sock = "closed"
               \/ term.shell \in {"exited", "broken"} /\ raises
            THEN raised
            ELSE [t EXCEPT !.inPc = "loop", !.wrote = payload.data]
       ELSE IF payload.type = "resize" /\ payload.sized
       THEN IF resized = "failed" THEN [raised EXCEPT !.resize = resized]
            ELSE [t EXCEPT !.inPc = "loop", !.resize = resized]
       ELSE [t EXCEPT !.inPc = "loop"]

\* what the pump does with one received frame: raw_sock.sendall of the data
\* of an "input" payload, exec_resize for a "resize" payload with int cols
\* and rows (APIError is caught and logged), nothing for a "pong" or anything
\* else.  Only json.JSONDecodeError is caught around json.loads, and
\* data.encode and sendall are not guarded: any other exception leaves the
\* pump through its `finally`.  term.wrote is the text written to the PTY
\* for the frame ("" when nothing was), term.resize the outcome of the
\* resize call made for it.
HandleFrame(message, raises, resized) ==
    LET payload == ParsePayload(message)
        t == [term EXCEPT !.inbox = Tail(@), !.wrote = "", !.resize = "none"]
        raised == [t EXCEPT !.inPc = "raised", !.stop_event = TRUE]
    IN IF JsonLoads(message).outcome = "RecursionError"
       THEN raised
       ELSE IF payload.type = "input" /\ payload.data # ""
       THEN IF \/ ~payload.encodable
               \/ term.sock = "closed"
               \/ term.shell \in {"exited", "broken"} /\ raises
            THEN raised
            ELSE [t EXCEPT !.inPc = "loop", !.wrote = payload.data]
       ELSE IF payload.type = "resize" /\ payload.sized
       THEN [t EXCEPT !.inPc = "loop", !.resize = resized]
       ELSE [t EXCEPT !.inPc = "loop"]

\* `await websocket.receive_text()` has no timeout: it returns when a frame
\* has arrived and raises when the peer has disconnected or the websocket
\* has been closed, which ends the loop.
InReceive(raises, resized) ==
    /\ term.inPc = "receive"
    /\ \/ term.inbox # <<>>
       \/ term.client = "disconnected"
       \/ term.ws = "closed"
    /\ term' =
         IF term.inbox = <<>>
         THEN [term EXCEPT !.inPc = "done", !.stop_event = TRUE, !.ws = "closed"]
         ELSE HandleFrame(Head(term.inbox), raises, resized)
    /\ UNCHANGED <<engineVars, startVars, reqVars, pathVars, appVars>>

\* asyncio.gather returns when both pumps have returned, and raises as soon
\* as one has raised
GatherOver ==
    \/ term.outPc = "done" /\ term.inPc = "done"
    \/ term.inPc = "raised"

\* the handler's `finally`: stop_event.set(), raw_sock.close(), and
\* websocket.close() unless already disconnected, with no code given
\* (term.code stays 0); after a raise the `except` branch finds the
\* websocket closed and sends nothing more
Teardown ==
    /\ term.pc = "pumping"
    /\ GatherOver
    /\ term' = [term EXCEPT !.pc = "done", !.stop_event = TRUE, !.sock = "closed",
                            !.ws = "closed"]
    /\ UNCHANGED <<engineVars, startVars, reqVars, pathVars, appVars>>

\* the browser sends a frame
ClientSends(frame) ==
    /\ term.client = "connected"
    /\ term.ws = "open"
    /\ term.inbox = <<>>
    /\ term' = [term EXCEPT !.inbox = <<frame>>]
    /\ UNCHANGED <<engineVars, startVars, reqVars, pathVars, appVars>>

\* the browser goes away
ClientDisconnects ==
    /\ term.client = "connected"
    /\ term.pc = "pumping"
    /\ term' = [term EXCEPT !.client = "disconnected"]
    /\ UNCHANGED <<engineVars, startVars, reqVars, pathVars, appVars>>

\* the exec'd shell exits: the raw socket reaches end of file
ShellExits ==
    /\ term.shell = "alive"
    /\ term' = [term EXCEPT !.shell = "exited"]
    /\ UNCHANGED <<engineVars, startVars, reqVars, pathVars, appVars>>

\* the connection to the engine breaks: reads raise OSError
SocketBreaks ==
    /\ term.shell = "alive"
    /\ term' = [term EXCEPT !.shell = "broken"]
    /\ UNCHANGED <<engineVars, startVars, reqVars, pathVars, appVars>>

(***************************************************************************)
(* The sandbox's own behaviour                                             *)
(***************************************************************************)
\* the nested engine comes up: its control socket appears
DockerdReady(name) ==
    /\ containers[name].status = "running"
    /\ ~containers[name].ready
    /\ containers' = [containers EXCEPT ![name].ready = TRUE]
    /\ UNCHANGED <<volumes, startVars, reqVars, pathVars, termVars, appVars>>

\* the sandbox container's main process exits
ContainerExits(name) ==
    /\ containers[name].status = "running"
    /\ containers' = [containers EXCEPT ![name].status = "exited", ![name].ready = FALSE]
    /\ UNCHANGED <<volumes, startVars, reqVars, pathVars, termVars, appVars>>

(***************************************************************************)
(* The session manager's specification                                     *)
(***************************************************************************)
Init == EngineInit /\ PathIdle /\ AppIdle

Next ==
    \/ \E sid \in SessionIds, lab \in LabSlugs : StartBegin(sid, lab)
    \/ WaitForDockerd
    \/ StartSeed
    \/ \E sid \in SessionIds, preserve \in BOOLEAN : StopRunner(sid, preserve)
    \/ \E name \in ContainerNames : DockerdReady(name)
    \/ \E name \in ContainerNames : ContainerExits(name)

Spec == Init /\ [][Next]_vars

\* start_runner is a synchronous handler: once called it runs on, so the
\* rounds of its wait and its seeding are taken whenever they are enabled.
\* Nothing is assumed of the sandbox (DockerdReady, ContainerExits) or of
\* the callers.
StartFairness == WF_vars(WaitForDockerd) /\ WF_vars(StartSeed)

SpecStartFair == Spec /\ StartFairness

(***************************************************************************)
(* The sanitizer as a one-call state machine                               *)
(***************************************************************************)
PathInit ==
    /\ rawPath \in {Some(p) : p \in PathInputs} \cup {None}
    /\ sanResult = Pending
    /\ EngineInit
    /\ AppIdle

\* a handler that takes a required path (read, write, create, rename, delete)
SanitizeCall ==
    /\ sanResult = Pending
    /\ rawPath.present
    /\ sanResult' = _sanitize_workspace_path(rawPath.text)
    /\ UNCHANGED <<rawPath, engineVars, startVars, reqVars, termVars, appVars>>

\* list_path, whose path field is optional
ListCall ==
    /\ sanResult = Pending
    /\ sanResult' = ListTarget(rawPath)
    /\ UNCHANGED <<rawPath, engineVars, startVars, reqVars, termVars, appVars>>

PathNext == SanitizeCall \/ ListCall

SpecPath == PathInit /\ [][PathNext]_vars

(***************************************************************************)
(* The filesystem gateway's specification: one session, its sandbox        *)
(* started, stopped and used through the six filesystem operations         *)
(***************************************************************************)
\* request paths
RootPath == <<>>
FilePath == Sub \o <<Slash>> \o FileTxt
DirPath == WORKSPACE_ROOT \o <<Slash>> \o Sub
BackToRootPath == Sub \o <<Slash>> \o DotDot
EscapingPath == DotDot \o <<Slash>> \o Etc \o <<Slash>> \o Passwd
SiblingPath == DotDot \o <<Slash>> \o WORKSPACE_ROOT \o <<"2">>

\* file contents: empty, a byte that is not text, two bytes
FsBytes == { <<>>, <<255>>, <<104, 105>> }

\* a text that is not base64: one lone character of the alphabet
NotBase64 == <<0>>

ListRequests ==
    { None, Some(RootPath), Some(DirPath), Some(FilePath), Some(EscapingPath) }

ReadRequests == { FilePath, DirPath, Dockerfile, EscapingPath, SiblingPath }

WriteRequests ==
    { [path |-> FilePath, content |-> b64encode(b), encoding |-> "base64"] : b \in FsBytes }
    \cup { [path |-> FilePath, content |-> NotBase64, encoding |-> "base64"],
           [path |-> FilePath, content |-> b64encode(<<255>>), encoding |-> "utf-8"],
           [path |-> EscapingPath, content |-> b64encode(<<255>>), encoding |-> "base64"],
           [path |-> SiblingPath, content |-> b64encode(<<255>>), encoding |-> "base64"],
           [path |-> RootPath, content |-> b64encode(<<255>>), encoding |-> "base64"],
           [path |-> Dockerfile, content |-> b64encode(<<104, 105>>), encoding |-> "base64"] }

CreateRequests ==
    { [path |-> p, kind |-> "directory", content |-> None, encoding |-> "base64"] :
        p \in { DirPath, EscapingPath } }
    \cup { [path |-> FilePath, kind |-> "file", content |-> c, encoding |-> "base64"] :
             c \in { None, Some(b64encode(<<104, 105>>)), Some(NotBase64) } }
    \cup { [path |-> FilePath, kind |-> "file", content |-> None, encoding |-> "utf-8"] }

RenameRequests ==
    { [path |-> FilePath, new_path |-> Dockerfile],
      [path |-> Dockerfile, new_path |-> FilePath],
      [path |-> DirPath, new_path |-> DirPath],
      [path |-> FilePath, new_path |-> EscapingPath],
      [path |-> EscapingPath, new_path |-> FilePath] }

DeleteRequests ==
    { RootPath, BackToRootPath, FilePath, DirPath, EscapingPath, SiblingPath }

FsRequest(sid) ==
    \/ \E p \in ListRequests : ListPath(sid, p)
    \/ \E p \in ReadRequests : ReadFile(sid, p)
    \/ \E r \in WriteRequests : WriteFile(sid, r.path, r.content, r.encoding)
    \/ \E r \in CreateRequests : CreateEntry(sid, r.path, r.kind, r.content, r.encoding)
    \/ \E r \in RenameRequests : RenameEntry(sid, r.path, r.new_path)
    \/ \E p \in DeleteRequests : DeleteEntry(sid, p)

FsNext ==
    \/ \E lab \in LabSlugs : StartBegin(S1, lab)
    \/ WaitForDockerd
    \/ StartSeed
    \/ \E preserve \in BOOLEAN : StopRunner(S1, preserve)
    \/ DockerdReady(_container_name(S1))
    \/ ContainerExits(_container_name(S1))
    \/ FsRequest(S1)

SpecFs == Init /\ [][FsNext]_vars

(***************************************************************************)
(* The supervisor's request handlers together, on one session: every       *)
(* operation that needs the running sandbox, with a few requests of each   *)
(***************************************************************************)
Succeeds == [exit_code |-> 0, logs |-> <<"#1 CACHED", "done">>, elapsed |-> 1500]
Fails == [exit_code |-> 1, logs |-> <<"error">>, elapsed |-> 20]
Outcomes == { Succeeds, Fails }

GoodPort == <<"8", "0", ":", "8", "0">>
BadPort == <<"8", "0">>

PipelineRequest(sid) ==
    \/ \E context \in { WORKSPACE_ROOT, Sub }, out \in Outcomes :
          BuildImage(sid, context, Dockerfile, NoName, out)
    \/ \E ports \in { <<GoodPort>>, <<BadPort>> }, out \in Outcomes :
          RunImage(sid, "img:1", NoName, ports, TRUE, FALSE, TRUE, out)
    \/ \E remove \in BOOLEAN, ignore_missing \in BOOLEAN, stopped \in Outcomes :
          StopRun(sid, NoName, remove, ignore_missing, stopped, Succeeds)
    \/ \E out \in Outcomes : ExecInRunner(sid, <<"make">>, out)

OpsWriteRequests ==
    { [path |-> FilePath, content |-> c, encoding |-> e] :
        c \in { b64encode(<<255>>), NotBase64 }, e \in { "base64", "utf-8" } }

OpsFsRequest(sid) ==
    \/ \E p \in { None, Some(EscapingPath) } : ListPath(sid, p)
    \/ \E p \in { FilePath, EscapingPath } : ReadFile(sid, p)
    \/ \E r \in OpsWriteRequests : WriteFile(sid, r.path, r.content, r.encoding)
    \/ \E c \in { None, Some(NotBase64) } : CreateEntry(sid, FilePath, "file", c, "base64")
    \/ RenameEntry(sid, FilePath, Dockerfile)
    \/ \E p \in { FilePath, RootPath } : DeleteEntry(sid, p)

OpsNext ==
    \/ \E lab \in LabSlugs : StartBegin(S1, lab)
    \/ WaitForDockerd
    \/ StartSeed
    \/ \E preserve \in BOOLEAN : StopRunner(S1, preserve)
    \/ DockerdReady(_container_name(S1))
    \/ ContainerExits(_container_name(S1))
    \/ PipelineRequest(S1)
    \/ OpsFsRequest(S1)

SpecOps == Init /\ [][OpsNext]_vars

(***************************************************************************)
(* The build/run pipeline's specification: one session, its sandbox        *)
(* started and stopped, images built, application containers run and       *)
(* stopped, commands executed                                              *)
(***************************************************************************)
\* a failing command with more output lines than the log-line limit
LongLog ==
    [i \in 1..(MAX_LOG_LINES + 1) |->
        IF i = 1 THEN "first" ELSE IF i % 2 = 0 THEN "even" ELSE "odd"]
FailsLong == [exit_code |-> 2, logs |-> LongLog, elapsed |-> 900]
Killed == [exit_code |-> 137, logs |-> <<>>, elapsed |-> 5]

AppRequestNames == { NoName, Named("web") }

BuildRequests ==
    { [context_path |-> c, dockerfile_path |-> Dockerfile, image_tag |-> t] :
        c \in { WORKSPACE_ROOT, Sub }, t \in { NoName, Named("img:1") } }
    \cup
    { [context_path |-> pathjoin(WORKSPACE_ROOT, Dockerfile),
       dockerfile_path |-> Dockerfile, image_tag |-> NoName],
      [context_path |-> WORKSPACE_ROOT, dockerfile_path |-> DotDot, image_tag |-> NoName] }

RunRequests ==
    { [image |-> "img:1", name |-> n, ports |-> p, detach |-> d,
       auto_remove |-> FALSE, remove_existing |-> r] :
        n \in AppRequestNames, p \in { <<GoodPort>>, <<GoodPort, BadPort>> },
        d \in BOOLEAN, r \in BOOLEAN }

RunStopRequests ==
    { [container_name |-> n, remove |-> r, ignore_missing |-> i] :
        n \in AppRequestNames, r \in BOOLEAN, i \in BOOLEAN }

\* outcomes of docker stop and docker rm
StopOutcomes ==
    { [stopped |-> Succeeds, removed |-> Succeeds],
      [stopped |-> Fails, removed |-> Succeeds],
      [stopped |-> Succeeds, removed |-> Fails] }

PipelineNext ==
    \/ StartBegin(S1, "lab1")
    \/ WaitForDockerd
    \/ StartSeed
    \/ \E preserve \in BOOLEAN : StopRunner(S1, preserve)
    \/ DockerdReady(_container_name(S1))
    \/ ContainerExits(_container_name(S1))
    \/ \E r \in BuildRequests, out \in { Succeeds, Fails, FailsLong } :
          BuildImage(S1, r.context_path, r.dockerfile_path, r.image_tag, out)
    \/ \E r \in RunRequests, out \in Outcomes :
          RunImage(S1, r.image, r.name, r.ports, r.detach, r.auto_remove,
                   r.remove_existing, out)
    \/ \E r \in RunStopRequests, o \in StopOutcomes :
          StopRun(S1, r.container_name, r.remove, r.ignore_missing, o.stopped, o.removed)
    \/ \E out \in { Succeeds, Fails, Killed, EngineError } :
          ExecInRunner(S1, <<"make">>, out)

SpecPipeline == Init /\ [][PipelineNext]_vars

(***************************************************************************)
(* Sessions over time: the session manager with the history of starts and  *)
(* stops recorded, and requests that need the running sandbox              *)
(***************************************************************************)
SessionsInit == EngineStart(NoHistory) /\ PathIdle /\ AppIdle

SessionsNext ==
    \/ Next
    \/ \E sid \in SessionIds : ListPath(sid, Some(WORKSPACE_ROOT))
    \/ \E sid \in SessionIds : ExecInRunner(sid, <<"make">>, Succeeds)

SpecSessions == SessionsInit /\ [][SessionsNext]_vars

(***************************************************************************)
(* The terminal's specification: one session, its sandbox started, stopped *)
(* and exiting, and terminal websockets opened on it.  SpecTerminalFair    *)
(* adds weak fairness of each step the supervisor takes by itself; the     *)
(* steps of the browser, of the shell and of the engine are not fair.      *)
(***************************************************************************)
RecvEvents == { "data", "timeout" }
TerminalEvents == { "data" }
TerminalFrames == { NoJson, PongFrame }

TerminalSteps(events) ==
    \/ OutLoop
    \/ \E event \in events, raises \in BOOLEAN : OutRecv(event, raises)
    \/ InLoop
    \/ \E raises \in BOOLEAN, resized \in ResizeOutcomes : InReceive(raises, resized)
    \/ Teardown

TerminalNext ==
    \/ StartBegin(S1, "lab1")
    \/ WaitForDockerd
    \/ StartSeed
    \/ StopRunner(S1, FALSE)
    \/ DockerdReady(_container_name(S1))
    \/ ContainerExits(_container_name(S1))
    \/ \E engine \in ExecOutcomes : TerminalOpen(S1, engine)
    \/ TerminalSteps(TerminalEvents)
    \/ \E frame \in TerminalFrames : ClientSends(frame)
    \/ ClientDisconnects
    \/ ShellExits
    \/ SocketBreaks

SpecTerminal == Init /\ [][TerminalNext]_vars

TerminalFairness ==
    /\ WF_vars(OutLoop)
    /\ WF_vars(\E event \in TerminalEvents, raises \in BOOLEAN : OutRecv(event, raises))
    /\ WF_vars(InLoop)
    /\ WF_vars(\E raises \in BOOLEAN, resized \in ResizeOutcomes : InReceive(raises, resized))
    /\ WF_vars(Teardown)
    /\ StartFairness

SpecTerminalFair == SpecTerminal /\ TerminalFairness

\* One sandbox is started and a terminal is opened on it; the shell's output
\* comes or stays away, and the client sends frames of every kind.
PumpNext ==
    \/ term.pc = "none" /\ StartBegin(S1, "lab1")
    \/ WaitForDockerd
    \/ StartSeed
    \/ DockerdReady(_container_name(S1))
    \/ \E engine \in ExecOutcomes : TerminalOpen(S1, engine)
    \/ TerminalSteps(RecvEvents)
    \/ \E frame \in Frames : ClientSends(frame)
    \/ ClientDisconnects
    \/ ShellExits
    \/ SocketBreaks

SpecPumps == Init /\ [][PumpNext]_vars

(***************************************************************************)
(* Properties of the session manager                                       *)
(***************************************************************************)
\* a step in which a request is served (or, for start, served further)
RequestStep == resp' # resp \/ calls' # calls

\* the ways a start can fail that are faults of the engine or of the sandbox,
\* not of the request or of what existed before it
StartupFaults ==
    { "Failed to start runner container: engine error",
      "Runner container exited during startup",
      "Runner daemon failed to become ready in time",
      "Unable to clean workspace before seeding",
      "Failed to seed workspace",
      "Internal Server Error" }

LiveContainers(cs, sid) ==
    { n \in ContainerNames : n = _container_name(sid) /\ cs[n].status # "absent" }

C2_StopUnknownIsNoOp ==
    [][ ( /\ RequestStep
          /\ resp'.op = "stop"
          /\ ~resp'.pre.hadContainer
          /\ ~resp'.pre.hadVolume )
        => /\ resp'.result = Ok([ok |-> TRUE])
           /\ containers' = containers
           /\ volumes' = volumes ]_vars

\* stop of an unknown session, volume removal requested, has returned
C2_Witness ==
    /\ resp.op = "stop"
    /\ resp.result.ok
    /\ ~resp.pre.hadContainer
    /\ ~resp.pre.hadVolume
    /\ ~resp.pre.preserve_workspace

\* C3: whenever start returns an error after the sandbox container has been
\* created, no container with the session's derived name exists.
C3_FailedStartLeavesNoContainer ==
    [][ ( /\ startPc \in {"waiting", "seeding"}
          /\ startPc' = "idle"
          /\ ~resp'.result.ok )
        => containers'[_container_name(resp'.session)].status = "absent" ]_vars

\* the part of C3 that the readiness wait keeps: a start that fails while
\* waiting for the nested engine leaves no container
FailedWaitLeavesNoContainer ==
    [][ ( /\ startPc = "waiting"
          /\ startPc' = "idle"
          /\ ~resp'.result.ok )
        => containers'[_container_name(resp'.session)].status = "absent" ]_vars

\* C13: after a start of s succeeded and a stop of s without
\* preserve_workspace then succeeded, and until s is started again, neither
\* the container nor the volume derived from s exists and every request for
\* s that needs the sandbox fails with 404.
C13_StoppedSessionStaysGone ==
    \A s \in SessionIds :
        resp.hist[s] = "gone" =>
            /\ containers[_container_name(s)].status = "absent"
            /\ ~volumes[_volume_name(s)].exists
            /\ (resp.session = s /\ resp.op \in { "list", "exec" }) =>
                   (~resp.result.ok /\ resp.result.status = 404)

NamesInjective ==
    \A a, b \in SessionIds :
        a # b => /\ _container_name(a) # _container_name(b)
                 /\ _volume_name(a) # _volume_name(b)

\* the step leaves the container and the volume of every session other than
\* s as they were
OthersUntouched(s) ==
    \A t \in SessionIds \ {s} :
        /\ containers'[_container_name(t)] = containers[_container_name(t)]
        /\ volumes'[_volume_name(t)] = volumes[_volume_name(t)]

\* C16: distinct session ids have distinct container names and distinct
\* volume names, and a start or stop of one session leaves the container and
\* the volume of every other session as they were.
C16_NamesSeparateSessions ==
    [][ /\ NamesInjective
        /\ (RequestStep /\ resp'.op \in { "start", "stop" })
               => OthersUntouched(resp'.session) ]_vars

\* C17: stop with preserve_workspace removes the session's container and
\* leaves its volume as it was; stop without it removes the container and
\* the volume; either way no other session's container or volume is touched.
C17_StopRemovesOwnResourcesOnly ==
    [][ (RequestStep /\ resp'.op = "stop") =>
          /\ resp'.result.ok =>
                containers'[_container_name(resp'.session)].status = "absent"
          /\ resp'.pre.preserve_workspace =>
                volumes'[_volume_name(resp'.session)] =
                    volumes[_volume_name(resp'.session)]
          /\ (~resp'.pre.preserve_workspace /\ resp'.result.ok) =>
                ~volumes'[_volume_name(resp'.session)].exists
          /\ OthersUntouched(resp'.session) ]_vars

(***************************************************************************)
(* Properties of the path sanitizer                                        *)
(***************************************************************************)
WorkspaceName == SubSeq(WORKSPACE_ROOT, 2, Len(WORKSPACE_ROOT))

\* p is the workspace root directory or lies beneath it, component by
\* component, and is normalized
UnderRoot(p) ==
    LET comps == SplitSlash(p) IN
    /\ Len(comps) >= 2
    /\ comps[1] = <<>>
    /\ comps[2] = WorkspaceName
    /\ \A i \in 3..Len(comps) : comps[i] \notin {<<>>, <<Dot>>, DotDot}

\* The directory a raw path names, resolved from the workspace root when it
\* is relative and from / when it is absolute: the stack of directory names
\* left after "." is skipped and ".." climbs one level (never above /).
RECURSIVE Walk(_, _, _)
Walk(comps, i, stack) ==
    IF i > Len(comps) THEN stack
    ELSE IF comps[i] = <<>> \/ comps[i] = <<Dot>> THEN Walk(comps, i + 1, stack)
    ELSE IF comps[i] = DotDot
         THEN Walk(comps, i + 1,
                   IF stack = <<>> THEN stack ELSE SubSeq(stack, 1, Len(stack) - 1))
    ELSE Walk(comps, i + 1, Append(stack, comps[i]))

Resolve(raw) ==
    Walk(SplitSlash(raw), 1,
         IF StartsWith(raw, <<Slash>>) THEN <<>> ELSE <<WorkspaceName>>)

OutsideRoot(raw) ==
    LET stack == Resolve(raw) IN stack = <<>> \/ stack[1] # WorkspaceName

\* C4: every path the sanitizer accepts is the workspace root or lies beneath
\* it component by component; no accepted path is outside the root directory.
C4_AcceptedIsUnderRoot ==
    (Returned(sanResult) /\ sanResult.ok) => UnderRoot(sanResult.value)

\* C6: an empty or absent path yields the workspace root; a relative path is
\* resolved against the root with "." and ".." normalized; every path that
\* resolves outside the root (relative and climbing above it, or absolute and
\* outside it) is rejected; sub/../sub/file.txt yields <root>/sub/file.txt.
C6_ResolvesAgainstRoot ==
    Returned(sanResult) =>
        /\ (~rawPath.present \/ rawPath.text = <<>>) => sanResult = Ok(WORKSPACE_ROOT)
        /\ (rawPath.present /\ rawPath.text # <<>> /\ OutsideRoot(rawPath.text))
              => ~sanResult.ok
        /\ (rawPath.present /\ rawPath.text # <<>>
              /\ ~StartsWith(rawPath.text, <<Slash>>) /\ ~OutsideRoot(rawPath.text))
              => sanResult = Ok(<<Slash>> \o JoinSlash(Resolve(rawPath.text)))
        /\ rawPath = Some(JoinSlash(<<Sub, DotDot, Sub, FileTxt>>))
              => sanResult = Ok(JoinSlash(<<WORKSPACE_ROOT, Sub, FileTxt>>))

\* C7: the input "/" is sanitized to the workspace root and is not rejected.
C7_SlashCollapsesToRoot ==
    (Returned(sanResult) /\ rawPath = Some(<<Slash>>)) => sanResult = Ok(WORKSPACE_ROOT)

\* The cases of C6 that name one input each.
SanitizerExamples ==
    Returned(sanResult) =>
        /\ rawPath = Some(JoinSlash(<<DotDot, Etc, Passwd>>)) => ~sanResult.ok
        /\ rawPath = Some(JoinSlash(<<<<>>, Etc, Passwd>>)) => ~sanResult.ok
        /\ rawPath = Some(<<>>) => sanResult = Ok(WORKSPACE_ROOT)
        /\ rawPath = None => sanResult = Ok(WORKSPACE_ROOT)
        /\ rawPath = Some(WORKSPACE_ROOT) => sanResult = Ok(WORKSPACE_ROOT)

(***************************************************************************)
(* Properties of the filesystem gateway and of the sandbox gate            *)
(***************************************************************************)
FsOps == { "list", "read", "write", "create", "rename", "delete" }
GatedOps == FsOps \cup { "build", "run", "stop_run", "exec" }

\* the served request's path, or its rename destination, is one the
\* sanitizer rejects
RequestEscapes ==
    \/ resp.pre.path.present /\ ~_sanitize_workspace_path(resp.pre.path.text).ok
    \/ resp.op = "rename" /\ ~_sanitize_workspace_path(resp.pre.new_path.text).ok

\* the calls that only look the sandbox up
LookupCalls == { "containers.get", "container.reload" }

\* nothing was executed in the sandbox and no archive went in or out
NoSandboxCommand == \A i \in 1..Len(calls) : calls[i] \in LookupCalls

Failed(status) == ~resp.result.ok /\ resp.result.status = status

\* C5: a filesystem request whose path (or rename destination) normalizes
\* outside the workspace root is rejected with 400 before any engine call is
\* made for it, whatever the state of the sandbox.
C5_EscapeRejectedBeforeEngine ==
    (resp.op \in FsOps /\ RequestEscapes) => (Failed(400) /\ calls = <<>>)

\* a write request that fails the checks write_file makes before it looks
\* the sandbox up
WriteInvalidBeforeLookup ==
    /\ resp.op = "write"
    /\ \/ resp.pre.encoding # "base64"
       \/ ~b64decode(resp.pre.content.text).ok

\* C8 as stated: every build, run, stop_run, exec and filesystem request
\* fails with 404 when the sandbox container does not exist and with 409 when
\* it exists but is not running, and issues no exec and no archive transfer.
C8_NotRunningFailsFast ==
    resp.op \in GatedOps =>
        /\ resp.pre.status = "absent" => (Failed(404) /\ NoSandboxCommand)
        /\ resp.pre.status \notin { "absent", "running" } =>
               (Failed(409) /\ NoSandboxCommand)

\* C8, amended: the same, except for a write request whose encoding is not
\* base64 or whose content is not valid base64, which fails with 400 before
\* the sandbox is looked up; in every case no exec and no archive transfer is
\* issued.
C8_NotRunningFailsFastUnlessWriteInvalid ==
    (resp.op \in GatedOps /\ resp.pre.status # "running") =>
        /\ NoSandboxCommand
        /\ IF WriteInvalidBeforeLookup THEN Failed(400) /\ calls = <<>>
           ELSE IF resp.pre.status = "absent" THEN Failed(404)
           ELSE Failed(409)

C8_Witness ==
    /\ resp.op = "exec"
    /\ resp.pre.status = "exited"
    /\ Failed(409)
    /\ NoSandboxCommand

\* C9: for every byte string b, a read that follows a successful write of
\* base64(b) to the same path of the same running session returns encoding
\* base64 and content that decodes to exactly b, whatever the path held
\* before the write.
C9_WriteThenReadRoundTrips ==
    \A b \in FsBytes :
        (/\ resp.op = "read"
         /\ resp.pre.status = "running"
         /\ resp.pre.follows.present
         /\ resp.pre.follows.text = b64encode(b))
        => /\ resp.result.ok
           /\ resp.result.value.encoding = "base64"
           /\ b64decode(resp.result.value.content) = Ok(b)

C9_Witness ==
    /\ resp.op = "read"
    /\ resp.pre.status = "running"
    /\ resp.pre.follows.present
    /\ resp.pre.follows.text = b64encode(<<255>>)
    /\ resp.pre.follows.over = FileEntry(<<104, 105>>)
    /\ resp.result.ok
    /\ b64decode(resp.result.value.content) = Ok(<<255>>)

\* the served request is a delete whose path sanitizes to the workspace root
DeletesRoot(r) ==
    /\ r.op = "delete"
    /\ _sanitize_workspace_path(r.pre.path.text) = Ok(WORKSPACE_ROOT)

\* C10: delete of a path that sanitizes to the workspace root fails with 400,
\* no remove command is executed and the workspace content is unchanged.
C10_RootDeleteIsInvalidInput ==
    [][(RequestStep /\ DeletesRoot(resp')) =>
          /\ ~resp'.result.ok
          /\ resp'.result.status = 400
          /\ \A i \in 1..Len(calls') : calls'[i] # "exec:rm"
          /\ volumes' = volumes]_vars

(***************************************************************************)
(* Properties of the build/run pipeline                                    *)
(***************************************************************************)
TruncationMarker == "... (truncated) ..."

\* logs is what remains of the captured lines when only the last limit of
\* them are kept behind a marker line; all of them when there are no more
\* than limit
IsTruncationOf(logs, captured, limit) ==
    IF Len(captured) <= limit THEN logs = captured
    ELSE /\ Len(logs) = limit + 1
         /\ logs[1] = TruncationMarker
         /\ \A i \in 1..limit : logs[i + 1] = captured[Len(captured) - limit + i]

Issued(call) == \E i \in 1..Len(calls) : calls[i] = call

\* the served request is a build whose build command ran and exited non-zero
BuildCommandFailed ==
    /\ resp.op = "build"
    /\ Issued("exec:docker-build")
    /\ resp.pre.out.exit_code # 0

\* C11: when the build command exits non-zero, build fails with the build
\* failure (500, "docker build failed") whose logs are the captured lines
\* truncated to the log-line limit; no image inspect or history is executed
\* and no metrics are returned.
C11_FailedBuildReturnsLogsOnly ==
    BuildCommandFailed =>
        /\ Failed(500)
        /\ resp.result.detail = "docker build failed"
        /\ IsTruncationOf(resp.result.logs, resp.pre.out.logs, MAX_LOG_LINES)
        /\ ~Issued("exec:docker-inspect")
        /\ ~Issued("exec:docker-history")
        /\ "metrics" \notin DOMAIN resp.result

C11_Witness ==
    /\ BuildCommandFailed
    /\ Len(resp.pre.out.logs) > MAX_LOG_LINES
    /\ Len(resp.result.logs) = MAX_LOG_LINES + 1
    /\ resp.result.logs[2] = "even"

\* the served request is a run with remove_existing on a running sandbox,
\* its port mappings well formed
RunRemovingExisting ==
    /\ resp.op = "run"
    /\ resp.pre.status = "running"
    /\ resp.pre.remove_existing
    /\ \A i \in 1..Len(resp.pre.ports) : HasColon(resp.pre.ports[i])

IssuedBefore(first, second) ==
    \E i, j \in 1..Len(calls) : i < j /\ calls[i] = first /\ calls[j] = second

C15_ExecReturnsExitCode ==
    (resp.op = "exec" /\ resp.pre.status = "running") =>
        IF Raises(resp.pre.out) THEN ~resp.result.ok
        ELSE /\ resp.result.ok
             /\ resp.result.value.exit_code = resp.pre.out.exit_code
             /\ IsTruncationOf(resp.result.value.logs, resp.pre.out.logs, MAX_LOG_LINES)
             /\ resp.result.value.elapsed_seconds = resp.pre.out.elapsed

C15_Witness ==
    /\ resp.op = "exec"
    /\ resp.pre.status = "running"
    /\ resp.result.ok
    /\ resp.result.value.exit_code = 137

\* the served request is a stop_run, on a running sandbox, of an application
\* container that does not exist
StopRunOfMissing ==
    /\ resp.op = "stop_run"
    /\ resp.pre.status = "running"
    /\ ~resp.pre.existed

\* C18: stop_run of an application container that does not exist returns
\* {ok: true, stopped: false} when ignore_missing is true and fails with 404
\* when it is false; no stop and no remove command is issued.
C18_StopRunOfMissing ==
    StopRunOfMissing =>
        /\ resp.pre.ignore_missing => resp.result = Ok([ok |-> TRUE, stopped |-> FALSE])
        /\ ~resp.pre.ignore_missing => Failed(404)
        /\ ~Issued("exec:docker-stop")
        /\ ~Issued("exec:docker-rm")
        /\ ~Issued("exec:docker-rm-f")

C18_Witness ==
    /\ StopRunOfMissing
    /\ ~resp.pre.ignore_missing
    /\ Failed(404)
    /\ resp.result.detail = "Inner container not found"

(***************************************************************************)
(* Properties of the terminal                                              *)
(***************************************************************************)
\* a terminal websocket is opened on a sandbox that is absent or not running
OpenedWithoutSandbox ==
    /\ \E engine \in ExecOutcomes : TerminalOpen(S1, engine)
    /\ term'.status # "running"

\* C14: when a terminal websocket is opened for a session whose sandbox is
\* absent or not running, the websocket is closed at once with a close code
\* of its own, different from the code sent for other terminal failures
\* (such as a failing exec_create), and no PTY exec is created.
C14_NoSandboxClosesWithOwnCode ==
    [][OpenedWithoutSandbox =>
          /\ term'.pc = "done"
          /\ term'.ws = "closed"
          /\ term'.code # TerminalFailureCode
          /\ term'.execs = term.execs
          /\ term'.sock = "none"]_vars


\* a pump of the terminal session being served has terminated
PumpEnded ==
    /\ term.pc = "pumping"
    /\ \/ term.outPc = "done"
       \/ term.inPc \in {"done", "raised"}

FullTeardown ==
    /\ term.stop_event
    /\ term.outPc = "done"
    /\ term.inPc \in {"done", "raised"}
    /\ term.sock = "closed"
    /\ term.ws = "closed"

\* C19: once either pump of a terminal session has terminated, the session
\* eventually reaches full teardown (stop signal set, both pumps stopped,
\* raw socket closed, websocket closed), under fairness of the supervisor's
\* own steps alone: no frame or data from the other side is needed.
C19_PumpEndLeadsToTeardown == PumpEnded ~> FullTeardown

(***************************************************************************)
(* Termination of start                                                    *)
(***************************************************************************)
\* the probes (`test -S` of the engine socket) made for the request served
Probes == Cardinality({ i \in DOMAIN calls : calls[i] = "exec:test-S" })

\* a start that entered the readiness wait eventually returns
StartReturns == (startPc # "idle") ~> (startPc = "idle")

ProbesBounded == [](Probes <= STARTUP_TIMEOUT)

\* the step on which a start that entered the readiness wait returns
StartReturnStep == startPc # "idle" /\ startPc' = "idle"

\* the statuses with which the supervisor reports a failure of the engine
\* or of a command run in the sandbox
UpstreamFailure == { 500, 502 }

\* start returns success, an upstream failure or the timeout, nothing else
StartReturnsOneOfThree ==
    [][StartReturnStep =>
          \/ resp'.result.ok
          \/ resp'.result.status \in UpstreamFailure
          \/ resp'.result.status = 504 /\ waited >= STARTUP_TIMEOUT]_vars

\* the readiness wait ends in one of three ways: the probe succeeded and
\* start goes on to seed the workspace; the container was seen not running
\* (502); the deadline passed with no successful probe (504)
WaitEndsOneOfThree ==
    [][(startPc = "waiting" /\ startPc' # "waiting") =>
         LET c == containers[_container_name(startReq.session)]
         IN \/ /\ startPc' = "seeding"
               /\ c.status = "running" /\ c.ready
               /\ waited < STARTUP_TIMEOUT
            \/ /\ startPc' = "idle"
               /\ resp'.result.ok = FALSE /\ resp'.result.status = 502
               /\ c.status # "running"
               /\ waited < STARTUP_TIMEOUT
            \/ /\ startPc' = "idle"
               /\ resp'.result.ok = FALSE /\ resp'.result.status = 504
               /\ waited >= STARTUP_TIMEOUT]_vars

\* C20: every call to start terminates.  The readiness wait makes at most
\* STARTUP_TIMEOUT probes and ends in one of three ways: the probe succeeded
\* and start goes on; the container was seen not running and start fails
\* with an upstream error; the deadline passed without a successful probe
\* and start fails with the timeout error.  A start that entered the wait
\* returns success, an upstream failure or the timeout, and never waits
\* forever on a sandbox whose engine never becomes ready.
C20_StartTerminates ==
    /\ StartReturns
    /\ ProbesBounded
    /\ WaitEndsOneOfThree
    /\ StartReturnsOneOfThree

\* a start has timed out on a sandbox that kept running and never was ready
C20_Witness ==
    /\ resp.op = "start"
    /\ startPc = "idle"
    /\ Failed(504)
    /\ Probes = STARTUP_TIMEOUT

(***************************************************************************)
(* Properties of the build/run pipeline: validation and stop_run           *)
(***************************************************************************)
\* the served request is a run on a running sandbox with a port mapping
\* that has no ":"
RunWithMalformedPort ==
    /\ resp.op = "run"
    /\ resp.pre.status = "running"
    /\ \E i \in 1..Len(resp.pre.ports) : ~HasColon(resp.pre.ports[i])

\* the application container the served run or stop_run request names, as it
\* is now
AppNow ==
    containers[_container_name(resp.session)].apps[
        IF resp.op = "run"
        THEN (IF resp.pre.name.present THEN resp.pre.name.name
              ELSE _default_run_container_name(resp.session))
        ELSE (IF resp.pre.container_name.present THEN resp.pre.container_name.name
              ELSE _default_run_container_name(resp.session))]

\* C21: a run request with a malformed port mapping fails with 400 and no
\* command has been issued into the sandbox for it; an application container
\* of the same name that existed before the request still exists after it,
\* also with remove_existing=true.
C21_MalformedPortIssuesNothing ==
    RunWithMalformedPort =>
        /\ Failed(400)
        /\ NoSandboxCommand
        /\ resp.pre.existed => AppNow # "absent"

\* the served request is a stop_run of an application container that
\* existed, on a running sandbox
StopRunOfExisting ==
    /\ resp.op = "stop_run"
    /\ resp.pre.status = "running"
    /\ resp.pre.existed

StopFailed == resp.pre.stopped.exit_code # 0

BuildStep ==
    /\ RequestStep
    /\ resp'.op = "build"
    /\ resp'.pre.status = "running"

\* what `test -d` / `test -f` find in the sandbox when the request comes in
ContextKind == KindOf(SandboxFs(containers, volumes, resp'.session), resp'.pre.context_path)
DockerfileKind ==
    LET df == resp'.pre.dockerfile_path
    IN KindOf(SandboxFs(containers, volumes, resp'.session),
              IF StartsWith(df, <<Slash>>) THEN df
              ELSE pathjoin(resp'.pre.context_path, df))

ContextIsAbsolute == StartsWith(resp'.pre.context_path, <<Slash>>)

NothingBuilt ==
    /\ \A i \in 1..Len(calls') : calls'[i] # "exec:docker-build"
    /\ containers'[_container_name(resp'.session)].images
          = containers[_container_name(resp'.session)].images

StartOfUnknownLab ==
    /\ RequestStep
    /\ resp'.op = "start"
    /\ ~StarterIsDir(resp'.pre.lab_slug)

\* C30: start with a lab_slug whose starter directory does not exist fails
\* with 404 and changes nothing in the engine: no volume is created, and a
\* sandbox container that exists for the session is neither removed nor
\* restarted.
C30_UnknownLabChangesNothing ==
    [][StartOfUnknownLab =>
          /\ resp'.result.ok = FALSE
          /\ resp'.result.status = 404
          /\ calls' = <<>>
          /\ containers' = containers
          /\ volumes' = volumes
          /\ startPc' = "idle"]_vars

\* the start of an unknown lab was refused while the session's sandbox ran
C30_Witness ==
    /\ resp.op = "start"
    /\ resp.pre.lab_slug = "nolab"
    /\ Failed(404)
    /\ resp.pre.hadContainer
    /\ containers[_container_name(resp.session)].status = "running"
    /\ volumes[_volume_name(resp.session)].exists

(***************************************************************************)
(* Seeding: one session started, stopped with or without its volume, and   *)
(* written to in between, so that a start finds a volume with content.     *)
(***************************************************************************)
SeedWrites ==
    { [path |-> DotEnv, content |-> b64encode(<<104, 105>>)],
      [path |-> FilePath, content |-> b64encode(<<255>>)],
      [path |-> Dockerfile, content |-> b64encode(<<104, 105>>)] }

SeedNext ==
    \/ StartBegin(S1, "lab1")
    \/ WaitForDockerd
    \/ StartSeed
    \/ \E preserve \in BOOLEAN : StopRunner(S1, preserve)
    \/ DockerdReady(_container_name(S1))
    \/ ContainerExits(_container_name(S1))
    \/ \E r \in SeedWrites : WriteFile(S1, r.path, r.content, "base64")

SpecSeed == Init /\ [][SeedNext]_vars

\* the start served last has returned success
StartSucceeded ==
    /\ resp.op = "start"
    /\ startPc = "idle"
    /\ resp.result.ok

\* C28: after a successful start the content of the workspace equals the
\* lab's starter content exactly, whatever the session's volume held before:
\* every entry left on a preserved volume, hidden ones included, is gone and
\* every starter entry is present.
C28_WorkspaceEqualsStarter ==
    StartSucceeded =>
        volumes[_volume_name(resp.session)].content = StarterContent(resp.pre.lab_slug)


(***************************************************************************)
(* Properties of the terminal pumps                                        *)
(***************************************************************************)

\* a round of pump_container_to_client whose read of the exec socket fails
\* (the connection is broken) or reaches end of file (the shell has exited)
FailedRead ==
    /\ term.outPc = "recv"
    /\ term.sock = "open"
    /\ term.shell \in {"broken", "exited"}
    /\ term'.outPc # "recv"

\* C23: a read of the exec socket that fails with an error other than a
\* timeout, or that reaches end of file, ends the container-to-client pump,
\* which sets the stop event.
C23_FailedReadEndsPump ==
    [][FailedRead => term'.outPc = "done" /\ term'.stop_event]_vars


\* the handler's `finally` has closed the raw exec socket and the websocket
TornDown == term.pc = "done" /\ term.sock = "closed"

\* a pump is in its loop: about to read, reading, or handling a frame
PumpRunning ==
    \/ term.outPc \in {"loop", "recv"}
    \/ term.inPc \in {"loop", "receive"}

\* C24: the teardown that closes the exec socket and the websocket happens
\* only after both pumps have ended, also when a pump ends by raising: no
\* pump is still running once the resources are closed.
C24_TeardownAfterBothPumps == TornDown => ~PumpRunning


\* a round of pump_container_to_client that sends a keepalive ping, or
\* forwards data, to the client
PingSent == term.outPc = "recv" /\ term'.sent = "ping"
DataForwarded == term.outPc = "recv" /\ term'.sent = "data"

\* the exec socket is open and connected to a living shell: a read on it
\* returns data or times out
HealthySocket == term.sock = "open" /\ term.shell = "alive"

\* C25: a keepalive ping is sent only on a read timeout at which more than
\* PingInterval seconds have passed since the last data forwarded or ping
\* sent, and forwarding data or sending a ping restarts that interval.
C25_PingOnlyOnIdleTimeout ==
    [][/\ PingSent => HealthySocket /\ term.idle + RecvTimeout > PingInterval
       /\ PingSent \/ DataForwarded => term'.idle = 0]_vars


\* pump_client_to_container takes a frame from the websocket while the
\* exec socket is open and connected to a living shell
FrameHandled ==
    /\ term.inPc = "receive"
    /\ term.inbox # <<>>
    /\ term'.inbox = Tail(term.inbox)
    /\ HealthySocket

\* the frame is not JSON (json.loads does not return), or JSON that is no
\* object
NotAnObject == JsonLoads(Head(term.inbox)).outcome # "dict"

\* the frame has been handled and the session goes on: the pump is back at
\* the head of its loop and the stop event is as it was
SessionGoesOn ==
    /\ term'.inPc = "loop"
    /\ term'.stop_event = term.stop_event
    /\ term'.pc = "pumping"

\* C26: a client frame that is not valid JSON, or is valid JSON but not an
\* object, is handled as input whose data is the frame's text: exactly that
\* text is written to the PTY, no resize is made, and the session goes on.
C26_NonObjectFrameIsRawInput ==
    [][FrameHandled /\ NotAnObject =>
          /\ term'.wrote = Head(term.inbox)
          /\ term'.resize = "none"
          /\ SessionGoesOn]_vars


\* pump_client_to_container takes a frame from the websocket
FrameTaken ==
    /\ term.inPc = "receive"
    /\ term.inbox # <<>>
    /\ term'.inbox = Tail(term.inbox)

\* the frame is a pong, a resize without int cols and rows, or a resize
\* whose exec_resize call has failed
IgnoredFrame ==
    \/ Head(term.inbox) \in { PongFrame, BadResizeFrame }
    \/ Head(term.inbox) = ResizeFrame /\ term'.resize = "failed"

\* C27: a resize frame whose resize call fails, a resize frame with missing
\* or non-integer cols or rows, and a pong frame write nothing to the PTY
\* and do not end the session: the pump goes on to the next frame and the
\* stop event is not set by it.
C27_IgnoredFrameKeepsSession ==
    [][FrameTaken /\ IgnoredFrame => term'.wrote = "" /\ SessionGoesOn]_vars

\* a resize has failed on a session whose pumps both go on
C27_Witness ==
    /\ term.pc = "pumping"
    /\ term.resize = "failed"
    /\ term.inPc = "loop"
    /\ ~term.stop_event


(***************************************************************************)
(* Properties of the filesystem gateway: where a write lands               *)
(***************************************************************************)

\* the request served last was a write, or the creation of a file, whose
\* path was accepted and for which _write_bytes has run mkdir
WriteReachedSandbox ==
    /\ startPc = "idle"
    /\ \/ resp.op = "write"
       \/ resp.op = "create" /\ resp.pre.kind # "directory"
    /\ resp.pre.path.present
    /\ _sanitize_workspace_path(resp.pre.path.text).ok
    /\ Issued("exec:mkdir")

\* the directory that write created and streamed its archive into
WrittenDirectory ==
    WriteDirectory(_sanitize_workspace_path(resp.pre.path.text).value)

\* C31: for every write or file creation the gateway accepts, the directory
\* created with mkdir and given to put_archive is the workspace root or a
\* directory beneath it, also when the path is empty or is the root.
C31_WriteStaysUnderRoot == WriteReachedSandbox => UnderRoot(WrittenDirectory)


(***************************************************************************)
(* Log truncation: _trim_logs on lists of up to MaxLogLen lines with       *)
(* limits from 1 to MaxLimit                                               *)
(***************************************************************************)
MaxLogLen == 5
MaxLimit == 3
LogLines == { "a", "b" }
LogInputs == UNION { [1..n -> LogLines] : n \in 0..MaxLogLen }

SupervisorIdle == EngineInit /\ PathIdle

TrimInit ==
    /\ SupervisorIdle
    /\ trim = [used |-> TRUE, called |-> FALSE]
    /\ limiter = Unused
    /\ backend = Unused
    /\ judge = Unused
    /\ proxy = Unused

TrimLogs(logs, limit) ==
    /\ trim' = [used |-> TRUE, called |-> TRUE, logs |-> logs, limit |-> limit,
                out |-> _trim_logs(logs, limit)]
    /\ UNCHANGED <<supervisorVars, limiter, backend, judge, proxy>>

TrimNext == \E logs \in LogInputs, limit \in 1..MaxLimit : TrimLogs(logs, limit)

SpecTrim == TrimInit /\ [][TrimNext]_vars

\* C32: a list of at most N lines is returned unchanged; a longer one is
\* returned as one truncation-marker line followed by exactly its last N
\* lines in their order, N + 1 lines in all.
C32_TrimKeepsLastLines ==
    trim.called =>
        IF Len(trim.logs) <= trim.limit
        THEN trim.out = trim.logs
        ELSE /\ Len(trim.out) = trim.limit + 1
             /\ trim.out[1] = "... (truncated) ..."
             /\ \A i \in 1..trim.limit :
                   trim.out[i + 1] = trim.logs[Len(trim.logs) - trim.limit + i]

\* a list of different lines, longer than the limit, has been truncated
C32_Witness ==
    /\ trim.called
    /\ Len(trim.logs) > trim.limit + 1
    /\ trim.logs[1] # trim.logs[Len(trim.logs)]
    /\ Len(trim.out) = trim.limit + 1

(***************************************************************************)
(* The backend: session storage, start_lab and the session cleanup loop    *)
(***************************************************************************)
\* number of session ids uuid4 hands out in a run
MaxSessions == 2
BackendIds == 1..MaxSessions
BackendLabs == { "lab1", "lab2" }
Handlers == { "h1" }
BackendUser == "u1"

\* a row of the sessions table; ended_at = 0 is NULL, another value the
\* time stamp written.  age is where now stands: before expires_at
\* ("fresh"), past it ("expired"), or past it by more than
\* SESSION_TTL_GRACE_SECONDS ("overdue").
NoRow == [exists |-> FALSE, lab_slug |-> "", user_id |-> "", age |-> "fresh", ended_at |-> 0]
Row(lab, user) ==
    [exists |-> TRUE, lab_slug |-> lab, user_id |-> user, age |-> "fresh", ended_at |-> 0]

\* outcomes of RunnerClient.stop: the response, raise_for_status raising
\* httpx.HTTPStatusError with a status that says the session is gone (404,
\* 409, 410) or with another status, or another httpx.HTTPError
StopReplies == { "ok", "gone", "status", "network" }
\* outcomes of RunnerClient.start, the last being a response without
\* "container"
StartReplies == { "ok", "status", "network", "nocontainer" }
\* outcomes of a statement on the SQLite connection: done, or sqlite3.Error
StorageOutcomes == { "ok", "error" }

\* (variant: the UPDATE has no `AND ended_at IS NULL`)
MarkOverwrites(rows, session_id, stamp, outcome) ==
    IF outcome = "error" THEN [rows |-> rows, returned |-> "StorageError"]
    ELSE IF session_id \in BackendIds /\ rows[session_id].exists
    THEN [rows |-> [rows EXCEPT ![session_id].ended_at = stamp], returned |-> "True"]
    ELSE [rows |-> rows, returned |-> "False"]

\* Storage.mark_session_ended: UPDATE sessions SET ended_at = ? WHERE
\* session_id = ? AND ended_at IS NULL, under the lock; cursor.rowcount > 0
mark_session_ended(rows, session_id, stamp, outcome) ==
    IF outcome = "error" THEN [rows |-> rows, returned |-> "StorageError"]
    ELSE IF session_id \in BackendIds /\ rows[session_id].exists
            /\ rows[session_id].ended_at = 0
    THEN [rows |-> [rows EXCEPT ![session_id].ended_at = stamp], returned |-> "True"]
    ELSE [rows |-> rows, returned |-> "False"]

\* Storage.list_expired_sessions(before = now - grace): the rows with
\* ended_at NULL and expires_at <= cutoff
list_expired_sessions(rows) ==
    { s \in BackendIds : rows[s].exists /\ rows[s].ended_at = 0 /\ rows[s].age = "overdue" }

\* Storage.get_active_sessions_for_lab(user_id, lab_slug): the sessions of
\* the user and lab that have not ended and not expired; those of them that
\* have expired are marked ended on the way
ActiveSessions(rows, user, lab) ==
    { s \in BackendIds : /\ rows[s].exists
                         /\ rows[s].user_id = user
                         /\ rows[s].lab_slug = lab
                         /\ rows[s].ended_at = 0
                         /\ rows[s].age = "fresh" }

ExpiredSessions(rows, user, lab) ==
    { s \in BackendIds : /\ rows[s].exists
                         /\ rows[s].user_id = user
                         /\ rows[s].lab_slug = lab
                         /\ rows[s].ended_at = 0
                         /\ rows[s].age # "fresh" }

get_active_sessions_for_lab(rows, user, lab, stamp) ==
    [rows |-> [s \in BackendIds |->
                  IF s \in ExpiredSessions(rows, user, lab)
                  THEN [rows[s] EXCEPT !.ended_at = stamp] ELSE rows[s]],
     sessions |-> ActiveSessions(rows, user, lab)]

\* a set of ids as the list the query returns
RECURSIVE AsList(_)
AsList(S) ==
    IF S = {} THEN <<>>
    ELSE LET m == CHOOSE x \in S : \A y \in S : x >= y
         IN <<m>> \o AsList(S \ {m})

IdleHandler ==
    [pc |-> "idle", lab |-> "", existing |-> <<>>, i |-> 0, replaced |-> <<>>,
     session_id |-> 0, status |-> 0, before |-> {}, reply |-> "none"]

IdleLoop == [pc |-> "sleep", todo |-> <<>>, i |-> 0, reply |-> "none"]

NoMark == [session_id |-> 0, prior |-> 0, returned |-> "none", by |-> "none", reply |-> "none"]

\* the backend after startup: an empty sessions table, no request in flight, the cleanup loop before its first pass.
\* mark is the last call of mark_session_ended, with ended_at as it was
\* before and the answer the caller had from runner.stop; clock is the time
\* stamp _utc_now gives next.
BackendStart ==
    [used |-> TRUE,
     rows |-> [s \in BackendIds |-> NoRow],
     uuids |-> 0,
     clock |-> 1,
     req |-> [h \in Handlers |-> IdleHandler],
     loop |-> IdleLoop,
     mark |-> NoMark]

BackendInit ==
    /\ SupervisorIdle
    /\ trim = Unused
    /\ limiter = Unused
    /\ backend = BackendStart
    /\ judge = Unused
    /\ proxy = Unused

BackendStep(b) ==
    /\ backend' = b
    /\ UNCHANGED <<supervisorVars, trim, limiter, judge, proxy>>

\* a step that is no call of mark_session_ended: backend.mark describes the
\* call made by the step just taken, if it made one
NoCall(b) == BackendStep([b EXCEPT !.mark = NoMark])

\* a mark_session_ended call by `by`, with its record in b.mark
Marked(b, session_id, outcome, by, reply) ==
    LET m == mark_session_ended(b.rows, session_id, b.clock, outcome)
    IN [b EXCEPT !.rows = m.rows,
                 !.clock = IF m.returned = "True" THEN @ + 1 ELSE @,
                 !.mark = [session_id |-> session_id,
                           prior |-> b.rows[session_id].ended_at,
                           returned |-> m.returned, by |-> by, reply |-> reply]]

\* start_lab up to its first await: the active sessions of the user and lab
StartLabBegin(h, lab) ==
    /\ backend.req[h].pc \in {"idle", "done"}
    /\ LET got == get_active_sessions_for_lab(backend.rows, BackendUser, lab, backend.clock)
           existing == AsList(got.sessions)
       IN NoCall([backend EXCEPT
              !.rows = got.rows,
              !.clock = IF got.rows # backend.rows THEN @ + 1 ELSE @,
              !.req[h] = [IdleHandler EXCEPT
                             !.pc = IF existing = <<>> THEN "start" ELSE "stop",
                             !.lab = lab, !.existing = existing,
                             !.i = IF existing = <<>> THEN 0 ELSE 1,
                             !.before = got.sessions]])

\* the loop body up to the stop's answer: replaced_session_ids.append and
\* await runner.stop(existing["session_id"]); both kinds of error are logged
StartLabStop(h, reply) ==
    LET r == backend.req[h]
        sid == r.existing[r.i]
    IN /\ r.pc = "stop"
       /\ NoCall([backend EXCEPT
              !.req[h].replaced = Append(@, sid),
              !.req[h].reply = reply,
              !.req[h].pc = "mark"])

\* storage.mark_session_ended(existing["session_id"]); StorageError is
\* logged; then the next existing session, or on to the start
StartLabMark(h, outcome) ==
    LET r == backend.req[h]
        sid == r.existing[r.i]
    IN /\ r.pc = "mark"
       /\ BackendStep([Marked(backend, sid, outcome, "start_lab", r.reply) EXCEPT
              !.req[h].i = IF r.i = Len(r.existing) THEN 0 ELSE r.i + 1,
              !.req[h].existing = IF r.i = Len(r.existing) THEN <<>> ELSE @,
              !.req[h].reply = "none",
              !.req[h].pc = IF r.i = Len(r.existing) THEN "start" ELSE "stop"])

\* session_id = uuid.uuid4().hex; await runner.start(...); an error of the
\* runner is answered with its status or 502
StartLabStart(h, reply) ==
    LET r == backend.req[h]
        sid == backend.uuids + 1
    IN /\ r.pc = "start"
       /\ backend.uuids < MaxSessions
       /\ NoCall([backend EXCEPT
              !.uuids = sid,
              !.req[h].session_id = sid,
              !.req[h].pc = IF reply = "ok" THEN "record" ELSE "done",
              !.req[h].status = IF reply = "ok" THEN 0
                                ELSE IF reply = "status" THEN 500 ELSE 502])

\* storage.record_session(...) and the response; StorageError gives 500
StartLabRecord(h, outcome) ==
    LET r == backend.req[h]
    IN /\ r.pc = "record"
       /\ NoCall([backend EXCEPT
              !.rows[r.session_id] = IF outcome = "ok" THEN Row(r.lab, BackendUser) ELSE @,
              !.req[h].pc = "done",
              !.req[h].status = IF outcome = "ok" THEN 200 ELSE 500])

\* _perform_session_cleanup up to its first await: list_expired_sessions,
\* whose sqlite3.Error nothing in the pass catches, and the first entry
CleanupPass(outcome) ==
    /\ backend.loop.pc = "sleep"
    /\ outcome = "error" \/ list_expired_sessions(backend.rows) # {}
    /\ NoCall([backend EXCEPT !.loop =
          IF outcome = "error" THEN [IdleLoop EXCEPT !.pc = "dead"]
          ELSE [IdleLoop EXCEPT !.pc = "stop", !.i = 1,
                                !.todo = AsList(list_expired_sessions(backend.rows))]])

\* after an entry: the next one, or back to asyncio.sleep(interval)
NextEntry(l) ==
    IF l.i = Len(l.todo) THEN IdleLoop
    ELSE [l EXCEPT !.pc = "stop", !.i = @ + 1, !.reply = "none"]

\* await runner.stop(session_id, preserve_workspace=False): mark_ended is set
\* by the answer and by the statuses 404, 409 and 410
CleanupStop(reply) ==
    LET l == backend.loop
        sid == l.todo[l.i]
    IN /\ l.pc = "stop"
       /\ NoCall([backend EXCEPT
              !.loop = IF reply \in {"ok", "gone"}
                       THEN [l EXCEPT !.pc = "mark", !.reply = reply]
                       ELSE NextEntry(l)])

\* if mark_ended: storage.mark_session_ended(session_id).  A StorageError
\* leaves the pass and the `while True` of _session_cleanup_loop, whose
\* `except Exception` logs it: the loop's task is over.
CleanupMark(outcome) ==
    LET l == backend.loop
        sid == l.todo[l.i]
    IN /\ l.pc = "mark"
       /\ BackendStep([Marked(backend, sid, outcome, "cleanup", l.reply) EXCEPT
              !.loop = IF outcome = "error" THEN [IdleLoop EXCEPT !.pc = "dead"]
                       ELSE NextEntry(l)])

\* _stop_session_cleanup: the task is cancelled at the await it is in
CleanupCancel ==
    /\ backend.loop.pc \in {"sleep", "stop"}
    /\ NoCall([backend EXCEPT !.loop = [IdleLoop EXCEPT !.pc = "cancelled"]])

\* time passes expires_at of a session, then expires_at + grace.  Every
\* session has the same ttl, so sessions expire in the order of their
\* creation.
Older(a, b) == a = "overdue" \/ b = "fresh" \/ a = b

TimePasses(s) ==
    /\ backend.rows[s].exists
    /\ backend.rows[s].age # "overdue"
    /\ \A e \in BackendIds :
          e < s /\ backend.rows[e].exists =>
              Older(backend.rows[e].age,
                    IF backend.rows[s].age = "fresh" THEN "expired" ELSE "overdue")
    /\ NoCall([backend EXCEPT !.rows[s].age =
                       IF @ = "fresh" THEN "expired" ELSE "overdue"])

\* mark_session_ended called with an id that has no record
MarkUnknown(s, outcome) ==
    /\ ~backend.rows[s].exists
    /\ backend.mark.by # "elsewhere"
    /\ BackendStep(Marked(backend, s, outcome, "elsewhere", "none"))

StartLabSteps ==
    \E h \in Handlers :
        \/ \E lab \in BackendLabs : StartLabBegin(h, lab)
        \/ \E reply \in StopReplies : StartLabStop(h, reply)
        \/ \E outcome \in StorageOutcomes : StartLabMark(h, outcome)
        \/ \E reply \in StartReplies : StartLabStart(h, reply)
        \/ \E outcome \in StorageOutcomes : StartLabRecord(h, outcome)

CleanupSteps ==
    \/ \E outcome \in StorageOutcomes : CleanupPass(outcome)
    \/ \E reply \in StopReplies : CleanupStop(reply)
    \/ \E outcome \in StorageOutcomes : CleanupMark(outcome)

BackendNext ==
    \/ StartLabSteps
    \/ CleanupSteps
    \/ CleanupCancel
    \/ \E s \in BackendIds : TimePasses(s)
    \/ \E s \in BackendIds, outcome \in StorageOutcomes : MarkUnknown(s, outcome)

SpecBackend == BackendInit /\ [][BackendNext]_vars


(***************************************************************************)
(* Properties of the backend's sessions                                    *)
(***************************************************************************)
\* start_lab returns its LabStartResponse
StartLabSucceeds ==
    /\ backend.req["h1"].pc = "record"
    /\ backend'.req["h1"].pc = "done"
    /\ backend'.req["h1"].status = 200

Listed(seq) == { seq[i] : i \in 1..Len(seq) }

\* C33: after a successful start_lab every session of the user and lab that
\* was active before the call has been sent a stop, is marked ended and is
\* listed in replaced_session_ids, and the one active session of the user
\* and lab is the new one.
C33_StartLabReplacesActiveSessions ==
    [][StartLabSucceeds =>
          LET r == backend'.req["h1"] IN
          /\ \A s \in r.before :
                /\ s \in Listed(r.replaced)
                /\ backend'.rows[s].ended_at # 0
          /\ ActiveSessions(backend'.rows, BackendUser, r.lab) = {r.session_id}]_vars

\* a call of mark_session_ended has returned in the step just taken
MarkReturned == backend'.mark.returned \in {"True", "False"}

\* C34: on every session record the first call of mark_session_ended, the
\* one that finds ended_at unset, returns True and sets it; every later
\* call returns False and leaves ended_at as the first set it, whoever the
\* callers are and however they interleave; a call for an id without a
\* record returns False.
C34_OnlyFirstMarkReturnsTrue ==
    [][/\ MarkReturned =>
            LET m == backend'.mark
                before == backend.rows[m.session_id]
            IN /\ m.returned = "True" <=> (before.exists /\ before.ended_at = 0)
               /\ m.returned = "True" => backend'.rows[m.session_id].ended_at # 0
               /\ m.returned = "False" => backend'.rows = backend.rows
       /\ \A s \in BackendIds :
             backend.rows[s].ended_at # 0 =>
                 backend'.rows[s].ended_at = backend.rows[s].ended_at]_vars

\* start_lab's call found the session already ended by the cleanup loop,
\* and a call for an id without a record has returned False
C34_Witness ==
    \/ /\ backend.mark.by = "start_lab"
       /\ backend.mark.returned = "False"
       /\ backend.mark.prior # 0
       /\ backend.rows[backend.mark.session_id].age = "overdue"
    \/ /\ backend.mark.by = "elsewhere"
       /\ backend.mark.returned = "False"
       /\ backend.uuids = MaxSessions

\* C35: the backend marks a session ended only after the runner's stop for
\* it has succeeded or has said the session is gone (404, 409, 410); after
\* a stop that failed otherwise the session stays unended.
C35_EndedOnlyAfterStop ==
    [][backend'.mark.returned = "True" => backend'.mark.reply \in {"ok", "gone"}]_vars


\* The cleanup loop is an asyncio task of the application: while it lives it
\* takes its next step, and every call it awaits returns.
CleanupFairness ==
    /\ WF_vars(CleanupPass("ok"))
    /\ WF_vars(\E reply \in StopReplies : CleanupStop(reply))
    /\ WF_vars(\E outcome \in StorageOutcomes : CleanupMark(outcome))

SpecBackendFair == SpecBackend /\ CleanupFairness

\* the runner's stop for the expired session s has just succeeded in a pass
StopSucceededFor(s) ==
    /\ backend.loop.pc = "mark"
    /\ backend.loop.todo[backend.loop.i] = s

SessionEnded(s) == backend.rows[s].ended_at # 0

LoopCancelled == backend.loop.pc = "cancelled"

\* C36: the cleanup loop runs passes until it is cancelled, whatever failed
\* in a pass: an expired, unended session whose stop by the runner has
\* succeeded is eventually marked ended, unless the loop is cancelled.
C36_CleanupOutlivesFailures ==
    \A s \in BackendIds :
        StopSucceededFor(s) ~> (SessionEnded(s) \/ LoopCancelled)


(***************************************************************************)
(* The judge: exercising the learner's container (lab1 and lab3)           *)
(***************************************************************************)
ProbeAttempts == 5

JudgeLabs == {"lab1", "lab3"}

\* what runner.run answers: a response naming the container, a response
\* without a name, or an error of httpx
RunReplies == {"named", "unnamed", "status", "network"}

\* what a runner.exec of the health probe answers
ExecReplies == {"200", "other", "status", "network"}

\* what runner.stop_run answers
StopRunReplies == {"ok", "status", "network"}

NoContainer == "none"

JudgeStart ==
    [used |-> TRUE, pc |-> "idle", lab |-> "", container_name |-> NoContainer,
     attempt |-> 0, probed |-> "none", failures |-> <<>>, returned |-> "nothing",
     stop_calls |-> <<>>, raised |-> FALSE, stop_reply |-> "none"]

JudgeInit ==
    /\ SupervisorIdle
    /\ trim = Unused
    /\ limiter = Unused
    /\ backend = Unused
    /\ judge = JudgeStart
    /\ proxy = Unused

JudgeStep(j) ==
    /\ judge' = j
    /\ UNCHANGED <<supervisorVars, trim, limiter, backend, proxy>>

\* _safe_stop with the error of stop_run left to propagate
SafeStopRaises(j, reply) ==
    [j EXCEPT !.stop_calls = Append(@, [container_name |-> j.container_name,
                                        timeout |-> 3, remove |-> TRUE,
                                        ignore_missing |-> TRUE]),
              !.stop_reply = reply,
              !.raised = reply # "ok",
              !.returned = IF reply # "ok" THEN "nothing" ELSE @]

\* _safe_stop: stop_run(timeout=3, remove=True, ignore_missing=True), an
\* httpx.HTTPError of which is swallowed
_safe_stop(j, reply) ==
    [j EXCEPT !.stop_calls = Append(@, [container_name |-> j.container_name,
                                        timeout |-> 3, remove |-> TRUE,
                                        ignore_missing |-> TRUE]),
              !.stop_reply = reply]

\* the except clauses of _exercise_container
RunnerFailure(reply) ==
    IF reply = "status" THEN "docker_run_failed" ELSE "runner_unavailable"

\* evaluate reaches _exercise_container with a built image
Exercise(lab) ==
    /\ judge.pc = "idle"
    /\ JudgeStep([JudgeStart EXCEPT !.pc = "run", !.lab = lab])

\* run_response = await runner.run(...); container_name is set from it
RunContainer(reply) ==
    /\ judge.pc = "run"
    /\ JudgeStep(
         IF reply \in {"status", "network"}
         THEN [judge EXCEPT !.pc = "finally", !.probed = reply,
                            !.failures = Append(@, RunnerFailure(reply)),
                            !.returned = "None"]
         ELSE [judge EXCEPT !.pc = "probe",
                            !.container_name =
                                IF reply = "named" THEN "app" ELSE NoContainer])

\* one round of _probe_health: runner.exec, then True, the next attempt, or
\* False after the fifth; an error of httpx ends it in an except clause
ProbeHealth(reply) ==
    /\ judge.pc = "probe"
    /\ judge.attempt < ProbeAttempts
    /\ JudgeStep(
         CASE reply = "200" ->
                [judge EXCEPT !.pc = "finally", !.attempt = @ + 1,
                              !.probed = "healthy", !.returned = "run_response"]
           [] reply = "other" /\ judge.attempt + 1 < ProbeAttempts ->
                [judge EXCEPT !.attempt = @ + 1]
           [] reply = "other" /\ judge.attempt + 1 = ProbeAttempts ->
                [judge EXCEPT !.pc = "finally", !.attempt = @ + 1,
                              !.probed = "unhealthy",
                              !.failures = Append(@, "healthcheck_failed"),
                              !.returned = "run_response"]
           [] OTHER ->
                [judge EXCEPT !.pc = "finally", !.attempt = @ + 1,
                              !.probed = reply,
                              !.failures = Append(@, RunnerFailure(reply)),
                              !.returned = "None"])

\* finally: if container_name: await _safe_stop(...); then the function
\* returns what its body returned
Finally(reply) ==
    /\ judge.pc = "finally"
    /\ IF judge.container_name # NoContainer
       THEN JudgeStep([_safe_stop(judge, reply) EXCEPT !.pc = "done"])
       ELSE /\ reply = "ok"
            /\ JudgeStep([judge EXCEPT !.pc = "done"])

\* the next evaluation
JudgeAgain ==
    /\ judge.pc = "done"
    /\ JudgeStep(JudgeStart)

JudgeNext ==
    \/ \E lab \in JudgeLabs : Exercise(lab)
    \/ \E reply \in RunReplies : RunContainer(reply)
    \/ \E reply \in ExecReplies : ProbeHealth(reply)
    \/ \E reply \in StopRunReplies : Finally(reply)
    \/ JudgeAgain

SpecJudge == JudgeInit /\ [][JudgeNext]_vars

\* the judge's verdict on the container, by what the probe found
VerdictOf(probed) ==
    CASE probed = "healthy" -> [failures |-> <<>>, returned |-> "run_response"]
      [] probed = "unhealthy" ->
            [failures |-> <<"healthcheck_failed">>, returned |-> "run_response"]
      [] OTHER -> [failures |-> <<RunnerFailure(probed)>>, returned |-> "None"]

\* C37: when run returned a container name, stop_run has been called for
\* that container with ignore_missing and remove set by the time the
\* exercise returns, whether the probe succeeded, failed five times or a
\* runner error came after the run; an error of that stop_run is swallowed
\* and the judge's result is what it was without it.
C37_ContainerStoppedBeforeReturn ==
    /\ judge.pc = "done" /\ judge.container_name # NoContainer =>
          /\ Len(judge.stop_calls) = 1
          /\ judge.stop_calls[1].container_name = judge.container_name
          /\ judge.stop_calls[1].remove
          /\ judge.stop_calls[1].ignore_missing
          /\ ~judge.raised
          /\ judge.failures = VerdictOf(judge.probed).failures
          /\ judge.returned = VerdictOf(judge.probed).returned
    /\ judge.attempt <= ProbeAttempts

\* the probe failed on all five attempts and the stop failed as well
C37_Witness ==
    /\ judge.pc = "done"
    /\ judge.container_name # NoContainer
    /\ judge.probed = "unhealthy"
    /\ judge.attempt = ProbeAttempts
    /\ judge.stop_reply = "network"
    /\ judge.lab = "lab3"


(***************************************************************************)
(* The agent service's rate limiter                                        *)
(***************************************************************************)
MaxTime == 4

MaxAllowCalls == 4

MaxQuota == 2

MaxPeriod == 2

LimiterKeys == {"k1", "k2"}

\* while window and now - window[0] > self._period: window.popleft()
RECURSIVE DropOld(_, _, _)
DropOld(window, now, period) ==
    IF window # <<>> /\ now - Head(window) > period
    THEN DropOld(Tail(window), now, period)
    ELSE window

\* RateLimiter.allow with a denied call entered in the window as well
AllowCountsDenied(events, key, now, max_calls, period) ==
    LET window == DropOld(events[key], now, period) IN
    [events |-> [events EXCEPT ![key] = Append(window, now)],
     returned |-> Len(window) < max_calls]

\* RateLimiter.allow, under its lock
allow(events, key, now, max_calls, period) ==
    LET window == DropOld(events[key], now, period) IN
    IF Len(window) >= max_calls
    THEN [events |-> [events EXCEPT ![key] = window], returned |-> FALSE]
    ELSE [events |-> [events EXCEPT ![key] = Append(window, now)],
          returned |-> TRUE]

\* RateLimiter(max_calls, period_seconds)
LimiterInit ==
    /\ SupervisorIdle
    /\ trim = Unused
    /\ \E max_calls \in 1..MaxQuota, period \in 1..MaxPeriod :
          limiter = [used |-> TRUE, max_calls |-> max_calls, period |-> period,
                     events |-> [k \in LimiterKeys |-> <<>>],
                     now |-> 0, calls |-> <<>>]
    /\ backend = Unused
    /\ judge = Unused
    /\ proxy = Unused

LimiterStep(l) ==
    /\ limiter' = l
    /\ UNCHANGED <<supervisorVars, trim, backend, judge, proxy>>

\* await limiter.allow(key) at the present reading of time.monotonic()
Allow(key) ==
    /\ Len(limiter.calls) < MaxAllowCalls
    /\ LET r == allow(limiter.events, key, limiter.now,
                      limiter.max_calls, limiter.period)
       IN LimiterStep([limiter EXCEPT
              !.events = r.events,
              !.calls = Append(@, [key |-> key, at |-> limiter.now,
                                   granted |-> r.returned])])

\* time.monotonic() moves on
ClockAdvances ==
    /\ limiter.now < MaxTime
    /\ LimiterStep([limiter EXCEPT !.now = @ + 1])

LimiterNext ==
    \/ \E key \in LimiterKeys : Allow(key)
    \/ ClockAdvances

SpecLimiter == LimiterInit /\ [][LimiterNext]_vars

\* the calls for the key granted in the period_seconds up to the i-th call
GrantedBefore(i) ==
    { j \in 1..(i - 1) :
         /\ limiter.calls[j].key = limiter.calls[i].key
         /\ limiter.calls[j].granted
         /\ limiter.calls[i].at - limiter.calls[j].at <= limiter.period }

\* the calls for the key granted in the window that begins at time a
GrantedIn(key, a) ==
    { j \in 1..Len(limiter.calls) :
         /\ limiter.calls[j].key = key
         /\ limiter.calls[j].granted
         /\ a <= limiter.calls[j].at
         /\ limiter.calls[j].at <= a + limiter.period }

\* C38: for every key, at most max_calls calls are granted within any
\* window of period_seconds; a call is denied exactly when max_calls
\* granted calls for its key lie within the last period_seconds, so that
\* denied calls and the calls for other keys do not count.
C38_SlidingWindowPerKey ==
    /\ \A key \in LimiterKeys, a \in 0..MaxTime :
          Cardinality(GrantedIn(key, a)) <= limiter.max_calls
    /\ \A i \in 1..Len(limiter.calls) :
          limiter.calls[i].granted <=>
              Cardinality(GrantedBefore(i)) < limiter.max_calls

\* a call is granted right after a denied call for its key and while the
\* other key is at its quota, once the oldest grant has left the window
C38_Witness ==
    \E i, j, k \in 1..Len(limiter.calls) :
        /\ i < j /\ j < k
        /\ limiter.calls[i].key = "k1" /\ limiter.calls[i].granted
        /\ limiter.calls[j].key = "k1" /\ ~limiter.calls[j].granted
        /\ limiter.calls[k].key = "k1" /\ limiter.calls[k].granted
        /\ limiter.calls[k].at - limiter.calls[j].at <= limiter.period
        /\ \E o \in 1..Len(limiter.calls) :
              limiter.calls[o].key = "k2" /\ limiter.calls[o].granted /\ o < k


(***************************************************************************)
(* The backend's terminal proxy                                            *)
(***************************************************************************)
MaxClientMessages == 2

MaxRunnerMessages == 2

\* what a send to a client that has disconnected does: the frame is dropped
\* or the send raises
DeadSendOutcomes == {"dropped", "raises"}

\* the handler has authenticated the client and is about to connect
ProxyStart ==
    [used |-> TRUE, pc |-> "connect", b2r |-> "idle", r2b |-> "idle",
     client |-> "open", closed |-> FALSE, runner |-> "none",
     inbox |-> 0, outbox |-> 0, clientSent |-> 0, runnerSent |-> 0,
     toRunner |-> 0, toClient |-> 0]

ProxyInit ==
    /\ SupervisorIdle
    /\ trim = Unused
    /\ limiter = Unused
    /\ backend = Unused
    /\ judge = Unused
    /\ proxy = ProxyStart

ProxyStep(p) ==
    /\ proxy' = p
    /\ UNCHANGED <<supervisorVars, trim, limiter, backend, judge>>

\* async with websockets.connect(runner_url, ...) as runner_ws: the two
\* pumps are handed to asyncio.gather; a failed handshake or an OSError
\* closes the client with 1011
ProxyConnect(ok) ==
    /\ proxy.pc = "connect"
    /\ ProxyStep(IF ok
                 THEN [proxy EXCEPT !.pc = "gather", !.runner = "open",
                                    !.b2r = "receive", !.r2b = "recv"]
                 ELSE [proxy EXCEPT !.pc = "finally", !.closed = TRUE])

\* the client sends a frame
BrowserSends ==
    /\ proxy.client = "open"
    /\ ~proxy.closed
    /\ proxy.clientSent < MaxClientMessages
    /\ ProxyStep([proxy EXCEPT !.inbox = @ + 1, !.clientSent = @ + 1])

\* the client goes away: a websocket.disconnect message follows its frames
BrowserDisconnects ==
    /\ proxy.client = "open"
    /\ ProxyStep([proxy EXCEPT !.client = "disconnected"])

\* the runner sends a frame
RunnerSends ==
    /\ proxy.runner = "open"
    /\ proxy.runnerSent < MaxRunnerMessages
    /\ ProxyStep([proxy EXCEPT !.outbox = @ + 1, !.runnerSent = @ + 1])

\* the runner closes its websocket
RunnerCloses ==
    /\ proxy.runner = "open"
    /\ ProxyStep([proxy EXCEPT !.runner = "peer_closed"])

\* backend_to_runner: message = await websocket.receive(), which returns
\* when the client has sent a frame or has disconnected, and not before
BackendToRunnerReceive ==
    /\ proxy.b2r = "receive"
    /\ \/ /\ proxy.inbox > 0
          /\ ProxyStep([proxy EXCEPT !.inbox = @ - 1, !.b2r = "send"])
       \/ /\ proxy.inbox = 0
          /\ proxy.client = "disconnected"
          /\ ProxyStep([proxy EXCEPT !.b2r = "close"])

\* backend_to_runner: await runner_ws.send(...); WsConnectionClosed breaks
BackendToRunnerSend ==
    /\ proxy.b2r = "send"
    /\ ProxyStep(IF proxy.runner = "open"
                 THEN [proxy EXCEPT !.b2r = "receive", !.toRunner = @ + 1]
                 ELSE [proxy EXCEPT !.b2r = "close"])

\* backend_to_runner, finally: await runner_ws.close()
BackendToRunnerClose ==
    /\ proxy.b2r = "close"
    /\ ProxyStep([proxy EXCEPT !.b2r = "done", !.runner = "closed"])

\* runner_to_backend: async for message in runner_ws, which ends when the
\* connection is closed
RunnerToBackendRecv ==
    /\ proxy.r2b = "recv"
    /\ \/ /\ proxy.outbox > 0
          /\ ProxyStep([proxy EXCEPT !.outbox = @ - 1, !.r2b = "send"])
       \/ /\ proxy.outbox = 0
          /\ proxy.runner # "open"
          /\ ProxyStep([proxy EXCEPT !.r2b = "done"])

\* runner_to_backend: await websocket.send_bytes / send_text
RunnerToBackendSend(outcome) ==
    /\ proxy.r2b = "send"
    /\ IF proxy.client = "open" /\ ~proxy.closed
       THEN /\ outcome = "dropped"
            /\ ProxyStep([proxy EXCEPT !.r2b = "recv", !.toClient = @ + 1])
       ELSE ProxyStep([proxy EXCEPT !.r2b =
                          IF outcome = "raises" THEN "raised" ELSE "recv"])

\* await asyncio.gather(backend_to_runner(), runner_to_backend()) returns
\* when both pumps have, or raises as soon as one of them has raised
GatherReturns ==
    /\ proxy.pc = "gather"
    /\ \/ proxy.b2r = "done" /\ proxy.r2b = "done"
       \/ proxy.r2b = "raised"
    /\ ProxyStep([proxy EXCEPT !.pc = "exit"])

\* the end of the async with block closes runner_ws
ProxyExit ==
    /\ proxy.pc = "exit"
    /\ ProxyStep([proxy EXCEPT !.pc = "finally", !.runner = "closed"])

\* finally: await websocket.close(); the handler returns
ProxyFinally ==
    /\ proxy.pc = "finally"
    /\ ProxyStep([proxy EXCEPT !.pc = "returned", !.closed = TRUE])

ProxySteps ==
    \/ \E ok \in BOOLEAN : ProxyConnect(ok)
    \/ BackendToRunnerReceive
    \/ BackendToRunnerSend
    \/ BackendToRunnerClose
    \/ RunnerToBackendRecv
    \/ \E outcome \in DeadSendOutcomes : RunnerToBackendSend(outcome)
    \/ GatherReturns
    \/ ProxyExit
    \/ ProxyFinally

PeerSteps ==
    \/ BrowserSends
    \/ BrowserDisconnects
    \/ RunnerSends
    \/ RunnerCloses

ProxyNext == ProxySteps \/ PeerSteps

SpecProxy == ProxyInit /\ [][ProxyNext]_vars

\* The handler and its two pumps are tasks of one event loop: each takes
\* its next step when it can.  The peers owe nothing.
ProxyFairness ==
    /\ WF_vars(\E ok \in BOOLEAN : ProxyConnect(ok))
    /\ WF_vars(BackendToRunnerReceive)
    /\ WF_vars(BackendToRunnerSend)
    /\ WF_vars(BackendToRunnerClose)
    /\ WF_vars(RunnerToBackendRecv)
    /\ WF_vars(\E outcome \in DeadSendOutcomes : RunnerToBackendSend(outcome))
    /\ WF_vars(GatherReturns)
    /\ WF_vars(ProxyExit)
    /\ WF_vars(ProxyFinally)

SpecProxyFair == SpecProxy /\ ProxyFairness

\* the client has disconnected or the runner has closed its websocket
\* while the proxy was pumping
DirectionEnded ==
    /\ proxy.pc = "gather"
    /\ proxy.client = "disconnected" \/ proxy.runner = "peer_closed"

ProxyTornDown ==
    /\ proxy.pc = "returned"
    /\ proxy.runner = "closed"
    /\ proxy.closed

\* C39: once the client has disconnected or the runner has closed its
\* websocket, the proxy closes the runner connection and the client
\* websocket and its handler returns, with no further message from either
\* peer.
C39_ProxyTearsDown == DirectionEnded ~> ProxyTornDown

============================================================================
